---- MODULE Spec2Model ----
(***************************************************************************)
(* Orchestration core of the voice dungeon game: DungeonMap (room graph),  *)
(* GameState (persistent world state), CombatManager, MonsterManager and   *)
(* GameController (intent dispatcher + narration workers).                 *)
(*                                                                         *)
(* Every handler of GameController runs on the Qt main thread and is one   *)
(* atomic action here.  A handler is written as a function from the        *)
(* controller record `m` to the controller record after the handler, in    *)
(* the statement order of the source, so that the moment of every signal,  *)
(* audio call and worker start relative to GameState.save() is kept.       *)
(***************************************************************************)
EXTENDS Integers, Sequences, FiniteSets, TLC

VARIABLES
    data,           \* which data files were loaded at construction (DungeonMap._rooms,
                    \* _item_registry, _boss_registry, _monster_registry), see Files
    st,             \* GameState._data (in memory)
    disk,           \* state/game_state.json (last atomic write)
    in_combat,      \* GameController._in_combat
    current_enemy,  \* GameController._current_enemy
    enemy_type,     \* GameController._enemy_type
    jobs,           \* narration workers started and not yet finished, by connected slot
    dialogs,        \* the modal QMessageBox dialogs open, innermost last
    is_recording,   \* GameController._is_recording
    stt,            \* speech-to-text workers started and not yet finished, see NoStt
    phase,          \* "constructed" (before start_game) or "running"
    op,             \* the handler that ran last and its argument: the slot of a
                    \* finished worker, the direction of a move intent, the item id
                    \* of a pickup or attack intent that started a narration job
    emitted,        \* signals / audio calls of the handler that ran last, in order
    launched,       \* narration jobs started by the handler that ran last, in order
    dirty           \* the last handler emitted / played / launched with st # disk

vars == <<data, st, disk, in_combat, current_enemy, enemy_type, jobs,
          dialogs, is_recording, stt, phase, op, emitted, launched, dirty>>

----------------------------------------------------------------------------
(* Bounds of the model *)

MaxJobs == 2
MaxDialogs == 1
MaxStt == 2
ApiBag == 2

(* Program constants *)

INVENTORY_CAP == 8
DEFAULT_HP == 100

None == "none"

----------------------------------------------------------------------------
(* Static data: maps/dungeon_map.json, data/items.json, data/bosses.json,  *)
(* data/monsters.json.  The files are inputs of the program; the values    *)
(* below are small instances of them.                                      *)

Directions == {"north", "south", "east", "west"}

Room(type, exits, boss_id, locked, key_id) ==
    [type |-> type, exits |-> exits, boss_id |-> boss_id,
     locked |-> locked, key_id |-> key_id]

\* home - hall - lair (boss) - gate (exit, locked); vault is a locked side room of hall.
MapFile ==
    [order |-> <<"home", "hall", "vault", "lair", "gate">>,
     rooms |->
       [home  |-> Room("home",   [north |-> "hall"], None, FALSE, None),
        hall  |-> Room("normal", [south |-> "home", east |-> "vault", north |-> "lair"],
                       None, FALSE, None),
        vault |-> Room("normal", [west |-> "hall"], None, TRUE, "key"),
        lair  |-> Room("boss",   [south |-> "hall", north |-> "gate"], "ogre", FALSE, None),
        gate  |-> Room("exit",   [south |-> "lair"], None, TRUE, "key")]]

\* a second dungeon_map.json without locks: home - hall - lair (boss) - gate (exit)
ArmoryMapFile ==
    [order |-> <<"home", "hall", "lair", "gate">>,
     rooms |->
       [home |-> Room("home",   [north |-> "hall"], None, FALSE, None),
        hall |-> Room("normal", [south |-> "home", north |-> "lair"], None, FALSE, None),
        lair |-> Room("boss",   [south |-> "hall", north |-> "gate"], "ogre", FALSE, None),
        gate |-> Room("exit",   [south |-> "lair"], None, FALSE, None)]]

Slots == {"weapon", "helmet", "suit", "legs", "shoes", "cloak", "shield"}

Item(type, slot, damage, defense, heal, scatter) ==
    [type |-> type, slot |-> slot, damage |-> damage, defense |-> defense,
     heal |-> heal, scatter |-> scatter]

\* bare_hands is the unarmed sentinel of the weapon slot: it is never scattered
ItemsFile ==
    [bare_hands |-> Item("weapon", "weapon", 5, 0, 0, FALSE),
     sword      |-> Item("weapon", "weapon", 10, 0, 0, TRUE),
     key        |-> Item("key",    None,     0, 0, 0, TRUE)]

\* a second items.json: two weapons for the same slot
ArmoryItemsFile ==
    [bare_hands |-> Item("weapon", "weapon", 5, 0, 0, FALSE),
     sword      |-> Item("weapon", "weapon", 10, 0, 0, TRUE),
     axe        |-> Item("weapon", "weapon", 5, 0, 0, TRUE)]

\* a third items.json: a piece of armor stronger than the weakest skill
ShieldItemsFile ==
    [bare_hands |-> Item("weapon", "weapon", 5, 0, 0, FALSE),
     shield     |-> Item("armor",  "shield", 0, 60, 0, TRUE)]

\* a fourth items.json: one key more than the bag can hold
KeyringItemsFile ==
    [bare_hands |-> Item("weapon", "weapon", 5, 0, 0, FALSE),
     k1 |-> Item("key", None, 0, 0, 0, TRUE), k2 |-> Item("key", None, 0, 0, 0, TRUE),
     k3 |-> Item("key", None, 0, 0, 0, TRUE), k4 |-> Item("key", None, 0, 0, 0, TRUE),
     k5 |-> Item("key", None, 0, 0, 0, TRUE), k6 |-> Item("key", None, 0, 0, 0, TRUE),
     k7 |-> Item("key", None, 0, 0, 0, TRUE), k8 |-> Item("key", None, 0, 0, 0, TRUE),
     k9 |-> Item("key", None, 0, 0, 0, TRUE)]

\* a fifth items.json: a weak and a strong potion
PotionItemsFile ==
    [bare_hands |-> Item("weapon", "weapon", 5, 0, 0, FALSE),
     potion     |-> Item("potion", None, 0, 0, 30, TRUE),
     elixir     |-> Item("potion", None, 0, 0, 80, TRUE)]

\* a dungeon_map.json without guardian: home - hall - gate (exit)
KeyringMapFile ==
    [order |-> <<"home", "hall", "gate">>,
     rooms |->
       [home |-> Room("home",   [north |-> "hall"], None, FALSE, None),
        hall |-> Room("normal", [south |-> "home", north |-> "gate"], None, FALSE, None),
        gate |-> Room("exit",   [south |-> "hall"], None, FALSE, None)]]

\* dungeon_map.json files of three rooms home - hall - gate with the given
\* types; hall_exits are the exits of the hall
LoadMap(home_type, hall_type, gate_type, hall_exits) ==
    [order |-> <<"home", "hall", "gate">>,
     rooms |->
       [home |-> Room(home_type, [north |-> "hall"], None, FALSE, None),
        hall |-> Room(hall_type, hall_exits, None, FALSE, None),
        gate |-> Room(gate_type, [south |-> "hall"], None, FALSE, None)]]

HallExits == [south |-> "home", north |-> "gate"]

\* the hall has an exit to a room that is not in the file
DanglingExits == [south |-> "home", north |-> "gate", east |-> "void"]

\* an items.json with the unarmed sentinel only
BareItemsFile == [bare_hands |-> Item("weapon", "weapon", 5, 0, 0, FALSE)]

\* data directories that differ in the map file: h<homes>e<exits>
LoadFiles ==
    LET With(map) == [dungeon |-> map, item_registry |-> BareItemsFile,
                      boss_registry |-> <<>>,
                      monster_registry |-> [order |-> <<>>, monsters |-> <<>>]]
    IN [h1e1     |-> With(LoadMap("home",   "normal", "exit",   HallExits)),
        h0e1     |-> With(LoadMap("normal", "normal", "exit",   HallExits)),
        h1e0     |-> With(LoadMap("home",   "normal", "normal", HallExits)),
        h0e0     |-> With(LoadMap("normal", "normal", "normal", HallExits)),
        h2e1     |-> With(LoadMap("home",   "home",   "exit",   HallExits)),
        h2e0     |-> With(LoadMap("home",   "home",   "normal", HallExits)),
        h1e2     |-> With(LoadMap("home",   "exit",   "exit",   HallExits)),
        dangling |-> With(LoadMap("home",   "normal", "exit",   DanglingExits))]

BossesFile ==
    [ogre |-> [id |-> "ogre", max_hp |-> 10, skills |-> {50, 100}]]

MonstersFile ==
    [order |-> <<"rat">>,
     monsters |-> [rat |-> [id |-> "rat", max_hp |-> 5, skills |-> {50}]]]

\* a map with two rooms of kind normal and no guardian:
\* home - hall - yard - gate (exit)
PackMapFile ==
    [order |-> <<"home", "hall", "yard", "gate">>,
     rooms |->
       [home |-> Room("home",   [north |-> "hall"], None, FALSE, None),
        hall |-> Room("normal", [south |-> "home", north |-> "yard"], None, FALSE, None),
        yard |-> Room("normal", [south |-> "hall", north |-> "gate"], None, FALSE, None),
        gate |-> Room("exit",   [south |-> "yard"], None, FALSE, None)]]

\* monsters.json with as many roamers as PackMapFile has normal rooms
PairMonstersFile ==
    [order |-> <<"rat", "bat">>,
     monsters |-> [rat |-> [id |-> "rat", max_hp |-> 5, skills |-> {50}],
                   bat |-> [id |-> "bat", max_hp |-> 5, skills |-> {50}]]]

\* monsters.json with one roamer more than PackMapFile has normal rooms
HordeMonstersFile ==
    [order |-> <<"rat", "bat", "imp">>,
     monsters |-> [rat |-> [id |-> "rat", max_hp |-> 5, skills |-> {50}],
                   bat |-> [id |-> "bat", max_hp |-> 5, skills |-> {50}],
                   imp |-> [id |-> "imp", max_hp |-> 5, skills |-> {50}]]]

\* a map whose guardian room is locked: home - hall - crypt (boss, locked) - gate (exit)
CryptMapFile ==
    [order |-> <<"home", "hall", "crypt", "gate">>,
     rooms |->
       [home  |-> Room("home",   [north |-> "hall"], None, FALSE, None),
        hall  |-> Room("normal", [south |-> "home", north |-> "crypt"], None, FALSE, None),
        crypt |-> Room("boss",   [south |-> "hall", north |-> "gate"], "ogre", TRUE, "key"),
        gate  |-> Room("exit",   [south |-> "crypt"], None, FALSE, None)]]

\* an items.json with the sentinel and the key of the crypt
KeyItemsFile ==
    [bare_hands |-> Item("weapon", "weapon", 5, 0, 0, FALSE),
     key        |-> Item("key",    None,     0, 0, 0, TRUE)]

CryptFiles ==
    [crypt |-> [dungeon |-> CryptMapFile, item_registry |-> KeyItemsFile,
                boss_registry |-> BossesFile, monster_registry |-> MonstersFile]]

\* a map whose hall lies between two normal side rooms:
\* home - hall - gate (exit), den west and yard east of the hall
DenMapFile ==
    [order |-> <<"home", "hall", "den", "yard", "gate">>,
     rooms |->
       [home |-> Room("home",   [north |-> "hall"], None, FALSE, None),
        hall |-> Room("normal", [south |-> "home", west |-> "den", east |-> "yard",
                                 north |-> "gate"], None, FALSE, None),
        den  |-> Room("normal", [east |-> "hall"], None, FALSE, None),
        yard |-> Room("normal", [west |-> "hall"], None, FALSE, None),
        gate |-> Room("exit",   [south |-> "hall"], None, FALSE, None)]]

PackFiles ==
    [pair  |-> [dungeon |-> PackMapFile, item_registry |-> BareItemsFile,
                boss_registry |-> <<>>, monster_registry |-> PairMonstersFile],
     horde |-> [dungeon |-> PackMapFile, item_registry |-> BareItemsFile,
                boss_registry |-> <<>>, monster_registry |-> HordeMonstersFile],
     den   |-> [dungeon |-> DenMapFile, item_registry |-> BareItemsFile,
                boss_registry |-> <<>>, monster_registry |-> PairMonstersFile]]

DataFiles ==
    [dungeon |-> MapFile, item_registry |-> ItemsFile,
     boss_registry |-> BossesFile, monster_registry |-> MonstersFile]

\* the data directories the program can be started in
Files ==
    [main   |-> DataFiles,
     armory |-> [DataFiles EXCEPT !.dungeon = ArmoryMapFile,
                                  !.item_registry = ArmoryItemsFile],
     shield |-> [DataFiles EXCEPT !.dungeon = ArmoryMapFile,
                                  !.item_registry = ShieldItemsFile],
     potion |-> [DataFiles EXCEPT !.dungeon = ArmoryMapFile,
                                  !.item_registry = PotionItemsFile],
     keyring |-> [dungeon |-> KeyringMapFile, item_registry |-> KeyringItemsFile,
                  boss_registry |-> <<>>,
                  monster_registry |-> [order |-> <<>>, monsters |-> <<>>]]]
    @@ LoadFiles @@ PackFiles @@ CryptFiles

----------------------------------------------------------------------------
(* Sequence helpers *)

Range(s) == {s[i] : i \in DOMAIN s}

RECURSIVE SeqRemoveFirst(_, _)
\* list.remove(x): drops the first occurrence of x
SeqRemoveFirst(s, x) ==
    IF s = <<>> THEN <<>>
    ELSE IF Head(s) = x THEN Tail(s)
    ELSE <<Head(s)>> \o SeqRemoveFirst(Tail(s), x)

\* random.shuffle(list of the elements of S): any ordering
Perms(S) == {p \in [1..Cardinality(S) -> S] : \A i, j \in DOMAIN p : p[i] = p[j] => i = j}

Get(f, k, default) == IF k \in DOMAIN f THEN f[k] ELSE default

Put(f, k, v) == (k :> v) @@ f

Drop(f, k) == [x \in (DOMAIN f) \ {k} |-> f[x]]

----------------------------------------------------------------------------
(* DungeonMap queries *)

\* faulty variant of _load_ok: a second home room is refused
_load_ok_single_home(d) ==
    /\ Cardinality({r \in DOMAIN d.rooms : d.rooms[r].type = "home"}) = 1
    /\ {r \in DOMAIN d.rooms : d.rooms[r].type = "exit"} # {}

\* DungeonMap._load returns without raising ValueError; an exit target that is
\* not a room is only logged
_load_ok(d) ==
    /\ {r \in DOMAIN d.rooms : d.rooms[r].type = "home"} # {}
    /\ {r \in DOMAIN d.rooms : d.rooms[r].type = "exit"} # {}

all_room_ids(d) == d.order

get_room(d, room_id) == d.rooms[room_id]

get_exits(d, room_id) == d.rooms[room_id].exits

\* faulty variant of resolve_direction: an unknown direction leads nowhere new
resolve_direction_stay(d, from_room_id, direction) ==
    Get(get_exits(d, from_room_id), direction, from_room_id)

resolve_direction(d, from_room_id, direction) ==
    Get(get_exits(d, from_room_id), direction, None)

get_boss_id(d, room_id) == d.rooms[room_id].boss_id

get_all_boss_room_ids(d) == SelectSeq(d.order, LAMBDA r : d.rooms[r].type = "boss")

is_locked(d, room_id) == d.rooms[room_id].locked

get_required_key(d, room_id) == d.rooms[room_id].key_id

----------------------------------------------------------------------------
(* GameState *)

EQUIPPED_DEFAULTS == [s \in Slots |-> IF s = "weapon" THEN "bare_hands" ELSE None]

DEFAULT_STATE ==
    [current_room      |-> "home",
     hp                |-> DEFAULT_HP,
     max_hp            |-> DEFAULT_HP,
     equipped          |-> EQUIPPED_DEFAULTS,
     bag               |-> <<>>,
     cleared_bosses    |-> {},
     room_items        |-> <<>>,
     boss_hp           |-> <<>>,
     monster_hp        |-> <<>>,
     monster_positions |-> <<>>,
     unlocked_rooms    |-> {}]

\* GameState.inventory: equipped item ids (non-empty) followed by the bag
inventory(s) == {s.equipped[sl] : sl \in {x \in Slots : s.equipped[x] # None}} \cup Range(s.bag)

is_boss_cleared(s, boss_id) == boss_id \in s.cleared_bosses

get_room_items(s, room_id) == Get(s.room_items, room_id, <<>>)

set_room_items(s, room_id, items) == [s EXCEPT !.room_items = Put(@, room_id, items)]

remove_room_item(s, room_id, item_id) ==
    set_room_items(s, room_id, SeqRemoveFirst(get_room_items(s, room_id), item_id))

needs_item_scatter(s) == DOMAIN s.room_items = {}

equip_item(s, slot, item_id) == [s EXCEPT !.equipped[slot] = item_id]

\* faulty variant of add_to_bag_ok: off by one
add_to_bag_ok_at_cap(s) == Len(s.bag) <= INVENTORY_CAP

add_to_bag_ok(s) == Len(s.bag) < INVENTORY_CAP

\* faulty variant of add_to_bag: the id is appended twice
add_to_bag_twice(s, item_id) ==
    IF add_to_bag_ok(s) THEN [s EXCEPT !.bag = @ \o <<item_id, item_id>>] ELSE s

add_to_bag(s, item_id) ==
    IF add_to_bag_ok(s) THEN [s EXCEPT !.bag = Append(@, item_id)] ELSE s

remove_from_bag(s, item_id) == [s EXCEPT !.bag = SeqRemoveFirst(@, item_id)]

\* faulty variant of heal: no cap
heal_unclamped(s, amount) == [s EXCEPT !.hp = s.hp + amount]

heal(s, amount) ==
    [s EXCEPT !.hp = IF s.hp + amount < s.max_hp THEN s.hp + amount ELSE s.max_hp]

\* the value heal returns: new_hp - old_hp
heal_gained(s, amount) == heal(s, amount).hp - s.hp

remove_from_inventory(s, item_id) ==
    IF item_id \in Range(s.bag)
    THEN [s EXCEPT !.bag = SeqRemoveFirst(@, item_id)]
    ELSE IF \E sl \in Slots : s.equipped[sl] = item_id
         THEN LET sl == CHOOSE x \in Slots : s.equipped[x] = item_id
              IN [s EXCEPT !.equipped[sl] = None]
         ELSE s

\* get_boss_hp initialises the entry in memory when it is absent
\* a lookup that starts every encounter from max_hp
get_boss_hp_fresh(s, boss_id, max_hp) == [s EXCEPT !.boss_hp = Put(@, boss_id, max_hp)]

get_boss_hp(s, boss_id, max_hp) ==
    IF boss_id \in DOMAIN s.boss_hp THEN s ELSE [s EXCEPT !.boss_hp = Put(@, boss_id, max_hp)]

set_boss_hp(s, boss_id, hp) == [s EXCEPT !.boss_hp = Put(@, boss_id, hp)]

get_monster_hp(s, monster_id, max_hp) ==
    IF monster_id \in DOMAIN s.monster_hp THEN s
    ELSE [s EXCEPT !.monster_hp = Put(@, monster_id, max_hp)]

set_monster_hp(s, monster_id, hp) == [s EXCEPT !.monster_hp = Put(@, monster_id, hp)]

set_monster_position(s, monster_id, room_id) ==
    [s EXCEPT !.monster_positions = Put(@, monster_id, room_id)]

remove_monster(s, monster_id) ==
    [s EXCEPT !.monster_positions = Drop(@, monster_id),
              !.monster_hp = Drop(@, monster_id)]

\* in the insertion order of monster_positions (order: the registry order)
get_monsters_in_room(order, s, room_id) ==
    SelectSeq(order,
              LAMBDA mid : mid \in DOMAIN s.monster_positions
                           /\ s.monster_positions[mid] = room_id)

needs_monster_scatter(s) == DOMAIN s.monster_positions = {}

unlock_room(s, room_id) == [s EXCEPT !.unlocked_rooms = @ \cup {room_id}]

move_player(s, target_room_id) == [s EXCEPT !.current_room = target_room_id]

mark_boss_cleared(s, boss_id) == [s EXCEPT !.cleared_bosses = @ \cup {boss_id}]

\* load(): the weapon slot stored as null is backfilled and written back
load(d) ==
    IF d.equipped["weapon"] = None THEN [d EXCEPT !.equipped["weapon"] = "bare_hands"] ELSE d

----------------------------------------------------------------------------
(* The controller record a handler works on.  `emitted`, `launched` and    *)
(* `dirty` describe the handler being run and start empty.                 *)

NoEnemy == [id |-> None, current_hp |-> 0, max_hp |-> 0, skills |-> {}]

Slot == {"narration", "win", "boss_entry", "boss_defeat", "monster_encounter",
         "monster_defeat", "death", "unlock"}

NoJobs == [s \in Slot |-> 0]

RECURSIVE SumOver(_, _)
SumOver(f, S) ==
    IF S = {} THEN 0
    ELSE LET x == CHOOSE y \in S : TRUE IN f[x] + SumOver(f, S \ {x})

JobsInFlight == SumOver(jobs, Slot)

\* speech-to-text workers by stage: `bound` reads the microphone until
\* self._stt_stop_event is set, `orphaned` reads it until an event the
\* controller no longer holds is set, `finalising` has seen its event set
NoStt == [bound |-> 0, orphaned |-> 0, finalising |-> 0]

SttWorkers(m) == m.stt.bound + m.stt.orphaned + m.stt.finalising

Cur(name, arg) ==
    [data |-> Files[data], st |-> st, disk |-> disk, in_combat |-> in_combat,
     current_enemy |-> current_enemy, enemy_type |-> enemy_type, jobs |-> jobs,
     dialogs |-> dialogs, is_recording |-> is_recording, stt |-> stt, phase |-> phase,
     op |-> <<name, arg>>, emitted |-> <<>>, launched |-> <<>>, dirty |-> FALSE]

Step(m) ==
    /\ data' = data
    /\ st' = m.st
    /\ disk' = m.disk
    /\ in_combat' = m.in_combat
    /\ current_enemy' = m.current_enemy
    /\ enemy_type' = m.enemy_type
    /\ jobs' = m.jobs
    /\ dialogs' = m.dialogs
    /\ is_recording' = m.is_recording
    /\ stt' = m.stt
    /\ phase' = m.phase
    /\ op' = m.op
    /\ emitted' = m.emitted
    /\ launched' = m.launched
    /\ dirty' = m.dirty

\* the process is gone: nothing in memory survives, the state file does
Dead(m) ==
    [m EXCEPT !.phase = "dead", !.st = m.disk, !.in_combat = FALSE,
              !.current_enemy = NoEnemy, !.enemy_type = None,
              !.jobs = NoJobs, !.dialogs = <<>>,
              !.is_recording = FALSE, !.stt = NoStt]

\* an exception leaves a slot: PyQt aborts the process unless an excepthook
\* is installed, in which case the slot just ends there
Raise(m, abort) == IF abort THEN Dead(m) ELSE m

\* self._signals.<sig>.emit(...): a UI notification
Emit(m, sig) ==
    [m EXCEPT !.emitted = Append(@, sig), !.dirty = @ \/ (m.st # m.disk)]

\* self._audio.play_bg / play_clip / play_sfx
Audio(m, what) ==
    [m EXCEPT !.emitted = Append(@, what), !.dirty = @ \/ (m.st # m.disk)]

\* GameState.save(): atomic write of the whole document
save(m) == [m EXCEPT !.disk = m.st]

\* worker = ...Worker(...); worker.finished.connect(slot); worker.start()
StartWorker(m, kind, slot) ==
    LET m1 == Emit(m, "narration_started")
    IN [m1 EXCEPT !.jobs[slot] = @ + 1,
                  !.launched = Append(@, kind),
                  !.dirty = @ \/ (m1.st # m1.disk)]

_emit_state(m) == Emit(m, "state_updated")
_emit_room_items(m) == Emit(m, "room_items_changed")
_emit_inventory(m) == Emit(m, "inventory_updated")
_emit_map(m) == Emit(m, "map_state_changed")

_trigger_narration(m) == StartWorker(m, "room", "narration")
_trigger_win_narration(m) == StartWorker(m, "win", "win")
_trigger_boss_entry_narration(m) == StartWorker(m, "boss_entry", "boss_entry")
_trigger_combat_round_narration(m) == StartWorker(m, "combat_round", "narration")
_trigger_boss_defeat_narration(m) == StartWorker(m, "boss_defeat", "boss_defeat")
_trigger_exit_blocked_narration(m) == StartWorker(m, "exit_blocked", "narration")
_trigger_pickup_narration(m) == StartWorker(m, "pickup", "narration")
_trigger_potion_narration(m) == StartWorker(m, "potion", "narration")
_trigger_swap_narration(m) == StartWorker(m, "swap", "narration")
_trigger_monster_encounter_narration(m) ==
    StartWorker(m, "monster_encounter", "monster_encounter")
_trigger_monster_defeat_narration(m) == StartWorker(m, "monster_defeat", "monster_defeat")
_trigger_death_narration(m) == StartWorker(m, "death", "death")
_trigger_locked_room_narration(m) == StartWorker(m, "locked", "narration")
_trigger_unlock_narration(m) == StartWorker(m, "unlock", "unlock")

----------------------------------------------------------------------------
(* Scatter *)

ScatterableItems(reg) == {i \in DOMAIN reg : reg[i].scatter}

ItemEligibleRooms(d) ==
    SelectSeq(d.order, LAMBDA r : d.rooms[r].type \notin {"home", "boss", "exit"})

RECURSIVE PlaceItems(_, _, _, _)
\* for i, item_id in enumerate(items): room = eligible[i % len(eligible)] ...
PlaceItems(s, items, eligible, i) ==
    IF i > Len(items) THEN s
    ELSE LET room == eligible[((i - 1) % Len(eligible)) + 1]
         IN PlaceItems(set_room_items(s, room, Append(get_room_items(s, room), items[i])),
                       items, eligible, i + 1)

\* items: the shuffled list of scatterable item ids
_scatter_items(m, items) ==
    LET eligible == ItemEligibleRooms(m.data.dungeon)
    IN IF eligible = <<>> THEN m
       ELSE _emit_map(save([m EXCEPT !.st = PlaceItems(m.st, items, eligible, 1)]))

MonsterEligibleRooms(d) == {r \in Range(d.order) : d.rooms[r].type = "normal"}

RECURSIVE PlaceMonsters(_, _, _, _)
\* for monster_id, room_id in zip(monster_ids, shuffled): set_monster_position(...)
PlaceMonsters(s, monster_ids, shuffled, i) ==
    IF i > Len(monster_ids) \/ i > Len(shuffled) THEN s
    ELSE PlaceMonsters(set_monster_position(s, monster_ids[i], shuffled[i]),
                       monster_ids, shuffled, i + 1)

\* MonsterManager.scatter; shuffled: the shuffled list of eligible rooms
scatter(s, monster_ids, shuffled) ==
    IF shuffled = <<>> THEN s ELSE PlaceMonsters(s, monster_ids, shuffled, 1)

_scatter_monsters(m, shuffled) ==
    _emit_map(save([m EXCEPT !.st = scatter(m.st, m.data.monster_registry.order, shuffled)]))

\* faulty variant of StepTargets: every adjacent room
StepTargetsAny(d, room_id) ==
    {get_exits(d, room_id)[dir] : dir \in DOMAIN get_exits(d, room_id)}

\* the adjacent rooms of kind normal
StepTargets(d, room_id) ==
    {get_exits(d, room_id)[dir] : dir \in
        {x \in DOMAIN get_exits(d, room_id) :
            get_room(d, get_exits(d, room_id)[x]).type = "normal"}}

\* the outcomes of random.choice for every monster of move_all
MoveChoices(d, s) ==
    {pick \in [DOMAIN s.monster_positions -> DOMAIN d.rooms] :
        \A mid \in DOMAIN pick :
            IF StepTargets(d, s.monster_positions[mid]) = {}
            THEN pick[mid] = s.monster_positions[mid]
            ELSE pick[mid] \in StepTargets(d, s.monster_positions[mid])}

\* faulty variant of move_all: no monster steps
move_all_stay(s, pick) == s

\* MonsterManager.move_all with the random choices `pick`
move_all(s, pick) ==
    [s EXCEPT !.monster_positions = [mid \in DOMAIN @ |-> pick[mid]]]

----------------------------------------------------------------------------
(* Combat helpers *)

_start_combat(m, boss_id) ==
    LET boss_data == m.data.boss_registry[boss_id]
        s1   == get_boss_hp(m.st, boss_id, boss_data.max_hp)
        boss == [id |-> boss_id, current_hp |-> s1.boss_hp[boss_id],
                 max_hp |-> boss_data.max_hp, skills |-> boss_data.skills]
        m1   == [m EXCEPT !.st = s1, !.current_enemy = boss,
                          !.enemy_type = "boss", !.in_combat = TRUE]
    IN _trigger_boss_entry_narration(Audio(m1, "play_bg"))

_start_monster_combat(m, monster_id) ==
    LET monster_data == m.data.monster_registry.monsters[monster_id]
        s1      == get_monster_hp(m.st, monster_id, monster_data.max_hp)
        monster == [id |-> monster_id, current_hp |-> s1.monster_hp[monster_id],
                    max_hp |-> monster_data.max_hp, skills |-> monster_data.skills]
        m1      == [m EXCEPT !.st = s1, !.current_enemy = monster,
                             !.enemy_type = "monster", !.in_combat = TRUE]
    IN _trigger_monster_encounter_narration(Audio(m1, "play_bg"))

_finish_boss_combat(m) ==
    LET m1 == [m EXCEPT !.st = mark_boss_cleared(@, m.current_enemy.id)]
    IN _trigger_boss_defeat_narration(_emit_map(save(m1)))

_finish_monster_combat(m) ==
    LET m1 == [m EXCEPT !.st = remove_monster(@, m.current_enemy.id)]
    IN _trigger_monster_defeat_narration(_emit_map(save(m1)))

RECURSIVE SumDefense(_, _, _)
SumDefense(reg, s, slots) ==
    IF slots = {} THEN 0
    ELSE LET sl == CHOOSE x \in slots : TRUE
             item_id == s.equipped[sl]
         IN (IF sl # "weapon" /\ item_id # None /\ item_id \in DOMAIN reg
             THEN reg[item_id].defense ELSE 0)
            + SumDefense(reg, s, slots \ {sl})

\* faulty variant of _compute_total_defense: armor is ignored
_compute_no_defense(m) == 0

_compute_total_defense(m) == SumDefense(m.data.item_registry, m.st, Slots)

\* a difference that is not cut off at zero
Max0Signed(x) == x

Max0(x) == IF x > 0 THEN x ELSE 0

----------------------------------------------------------------------------
(* Intent handlers *)

AllBossesCleared(m) ==
    \A r \in Range(get_all_boss_room_ids(m.data.dungeon)) :
        get_boss_id(m.data.dungeon, r) # None => is_boss_cleared(m.st, get_boss_id(m.data.dungeon, r))

\* faulty variant of MoveUnlock: the key is not consumed
MoveUnlockKeepsKey(m, target_id, required_key) ==
    LET s1 == unlock_room(m.st, target_id)
        s3 == move_player(s1, target_id)
        m1 == save([m EXCEPT !.st = s3])
    IN _trigger_unlock_narration(
           _emit_map(_emit_inventory(_emit_room_items(_emit_state(m1)))))

\* 2. locked room, key held: consume, unlock, move, then narrate the unlock
MoveUnlock(m, target_id, required_key) ==
    LET s1 == unlock_room(m.st, target_id)
        s2 == remove_from_inventory(s1, required_key)
        s3 == move_player(s2, target_id)
        m1 == save([m EXCEPT !.st = s3])
    IN _trigger_unlock_narration(
           _emit_map(_emit_inventory(_emit_room_items(_emit_state(m1)))))

\* 3. boss room entry
MoveBossRoom(m, target_id, boss_id) ==
    LET m1 == save([m EXCEPT !.st = move_player(@, target_id)])
    IN _start_combat(_emit_map(_emit_room_items(_emit_state(m1))), boss_id)

\* 4. cancel any active combat if the player flees
Flee(m) ==
    IF m.in_combat
    THEN Emit([m EXCEPT !.in_combat = FALSE, !.current_enemy = NoEnemy,
                        !.enemy_type = None], "combat_ended")
    ELSE m

\* 4.-7. normal movement; pick: the random choices of move_all
MoveNormal(m, target_id, pick) ==
    LET m0 == Flee(m)
        s1 == move_player(m0.st, target_id)
        m1 == _emit_map(_emit_room_items(_emit_state(save([m0 EXCEPT !.st = s1]))))
    IN IF get_room(m.data.dungeon, target_id).type = "exit"
       THEN _trigger_win_narration(m1)
       ELSE LET m2 == _emit_map(save([m1 EXCEPT !.st = move_all(@, pick)]))
                monsters_here == get_monsters_in_room(m.data.monster_registry.order,
                                                     m2.st, target_id)
            IN IF monsters_here # <<>>
               THEN _start_monster_combat(m2, monsters_here[1])
               ELSE _trigger_narration(Audio(m2, "play_bg"))

\* faulty variant of ExitSealed: the exit gate is never checked
ExitNeverSealed(m, target_id) == FALSE

\* 1. exit gate: all bosses must be defeated
ExitSealed(m, target_id) ==
    get_room(m.data.dungeon, target_id).type = "exit" /\ ~AllBossesCleared(m)

StillLocked(m, target_id) ==
    is_locked(m.data.dungeon, target_id) /\ target_id \notin m.st.unlocked_rooms

\* faulty variant of HasKey: the inventory is not looked at
HasKeyAlways(m, target_id) == TRUE

HasKey(m, target_id) ==
    /\ get_required_key(m.data.dungeon, target_id) # None
    /\ get_required_key(m.data.dungeon, target_id) \in inventory(m.st)

\* faulty variant of BossAhead: the guardian of the room is not looked at
BossNeverAhead(m, target_id) == FALSE

\* 3. boss room entry
BossAhead(m, target_id) ==
    /\ get_boss_id(m.data.dungeon, target_id) # None
    /\ ~is_boss_cleared(m.st, get_boss_id(m.data.dungeon, target_id))

_handle_move(m, direction, pick) ==
    LET room_id   == m.st.current_room
        target_id == resolve_direction(m.data.dungeon, room_id, direction)
    IN IF target_id = None THEN Emit(m, "error:no_such_exit")
       \* get_room(target_id) raises KeyError; no excepthook is installed
       ELSE IF target_id \notin DOMAIN m.data.dungeon.rooms THEN Raise(m, TRUE)
       ELSE IF ExitSealed(m, target_id) THEN _trigger_exit_blocked_narration(m)
       ELSE IF StillLocked(m, target_id)
            THEN IF HasKey(m, target_id)
                 THEN MoveUnlock(m, target_id,
                                 get_required_key(m.data.dungeon, target_id))
                 ELSE _trigger_locked_room_narration(m)
       ELSE IF BossAhead(m, target_id)
            THEN MoveBossRoom(m, target_id, get_boss_id(m.data.dungeon, target_id))
       ELSE MoveNormal(m, target_id, pick)

PickupKey(m, room_id, item_id) ==
    IF ~add_to_bag_ok(m.st) THEN Emit(m, "error:bag_full")
    ELSE LET s1 == remove_room_item(add_to_bag(m.st, item_id), room_id, item_id)
             m1 == save([m EXCEPT !.st = s1])
         IN _trigger_pickup_narration(
                _emit_map(_emit_room_items(_emit_inventory(m1))))

\* faulty variant of PickupEquipment: the item stays on the floor
PickupEquipmentKeepsFloor(m, room_id, item_id) ==
    LET slot   == m.data.item_registry[item_id].slot
        old_id == m.st.equipped[slot]
        s1     == equip_item(m.st, slot, item_id)
        s2     == IF old_id # None /\ old_id # "bare_hands"
                  THEN set_room_items(s1, room_id, Append(get_room_items(s1, room_id), old_id))
                  ELSE s1
        m1     == _emit_map(_emit_room_items(_emit_inventory(save([m EXCEPT !.st = s2]))))
    IN IF old_id # None /\ old_id \in DOMAIN m.data.item_registry
       THEN _trigger_swap_narration(m1)
       ELSE _trigger_pickup_narration(m1)

\* faulty variant of PickupEquipment: a displaced item is never narrated
PickupEquipmentPlain(m, room_id, item_id) ==
    LET slot   == m.data.item_registry[item_id].slot
        old_id == m.st.equipped[slot]
        s1     == remove_room_item(equip_item(m.st, slot, item_id), room_id, item_id)
        s2     == IF old_id # None /\ old_id # "bare_hands"
                  THEN set_room_items(s1, room_id, Append(get_room_items(s1, room_id), old_id))
                  ELSE s1
        m1     == _emit_map(_emit_room_items(_emit_inventory(save([m EXCEPT !.st = s2]))))
    IN _trigger_pickup_narration(m1)

PickupEquipment(m, room_id, item_id) ==
    LET slot   == m.data.item_registry[item_id].slot
        old_id == m.st.equipped[slot]
        s1     == remove_room_item(equip_item(m.st, slot, item_id), room_id, item_id)
        s2     == IF old_id # None /\ old_id # "bare_hands"
                  THEN set_room_items(s1, room_id, Append(get_room_items(s1, room_id), old_id))
                  ELSE s1
        m1     == _emit_map(_emit_room_items(_emit_inventory(save([m EXCEPT !.st = s2]))))
    IN IF old_id # None /\ old_id \in DOMAIN m.data.item_registry
       THEN _trigger_swap_narration(m1)
       ELSE _trigger_pickup_narration(m1)

PickupPotion(m, room_id, item_id) ==
    LET s1 == remove_room_item(heal(m.st, m.data.item_registry[item_id].heal), room_id, item_id)
        m1 == save([m EXCEPT !.st = s1])
    IN _trigger_potion_narration(_emit_map(_emit_room_items(_emit_state(m1))))

\* faulty variant of OnFloor: the floors of all rooms are searched
OnAnyFloor(m, room_id, item_id) ==
    \E r \in DOMAIN m.st.room_items : item_id \in Range(m.st.room_items[r])

\* action.item_id in room_items
OnFloor(m, room_id, item_id) == item_id \in Range(get_room_items(m.st, room_id))

_handle_pickup(m, item_id) ==
    LET room_id == m.st.current_room
        reg     == m.data.item_registry
    IN IF ~OnFloor(m, room_id, item_id)
       THEN Emit(m, "error:not_here")
       ELSE IF item_id \notin DOMAIN reg THEN Emit(m, "error:unknown_item")
       ELSE IF reg[item_id].type = "key" THEN PickupKey(m, room_id, item_id)
       ELSE IF reg[item_id].type \in {"weapon", "armor"}
            THEN PickupEquipment(m, room_id, item_id)
       ELSE IF reg[item_id].type = "potion" THEN PickupPotion(m, room_id, item_id)
       ELSE Emit(m, "error:cannot_pick_up")

\* faulty variant of AttackOutcome: the defeat test is strict
AttackOutcomeStrict(m, new_enemy_hp, new_player_hp) ==
    IF new_enemy_hp < 0
    THEN IF m.enemy_type = "boss" THEN _finish_boss_combat(m) ELSE _finish_monster_combat(m)
    ELSE IF new_player_hp <= 0 THEN _trigger_death_narration(m)
    ELSE _trigger_combat_round_narration(m)

\* the three outcomes after the exchange has been applied and saved
AttackOutcome(m, new_enemy_hp, new_player_hp) ==
    IF new_enemy_hp <= 0
    THEN IF m.enemy_type = "boss" THEN _finish_boss_combat(m) ELSE _finish_monster_combat(m)
    ELSE IF new_player_hp <= 0 THEN _trigger_death_narration(m)
    ELSE _trigger_combat_round_narration(m)

\* faulty variant of Held: the registry is looked at instead of the inventory
HeldOrKnown(m, item_id) == item_id \in DOMAIN m.data.item_registry

\* action.item_id in self._state.inventory
Held(m, item_id) == item_id \in inventory(m.st)

\* skill_damage: the damage of the skill random.choice picked;
\* taunt: whether the pre-generated skill stinger file exists
_handle_attack(m, item_id, skill_damage, taunt) ==
    IF ~m.in_combat \/ m.current_enemy = NoEnemy THEN Emit(m, "error:not_in_combat")
    ELSE IF ~Held(m, item_id) THEN Emit(m, "error:not_held")
    ELSE
      LET player_damage == m.data.item_registry[item_id].damage
          new_enemy_hp  == Max0(m.current_enemy.current_hp - player_damage)
          defense       == _compute_total_defense(m)
          new_player_hp == Max0(m.st.hp - Max0(skill_damage - defense))
          m1 == [m EXCEPT !.current_enemy.current_hp = new_enemy_hp,
                          !.st.hp = new_player_hp]
          m2 == IF m1.enemy_type = "boss"
                THEN LET m1b == [m1 EXCEPT !.st = set_boss_hp(@, m1.current_enemy.id,
                                                              new_enemy_hp)]
                     IN IF taunt THEN Audio(m1b, "play_sfx") ELSE m1b
                ELSE [m1 EXCEPT !.st = set_monster_hp(@, m1.current_enemy.id, new_enemy_hp)]
          m3 == Emit(save(m2), "combat_updated")
      IN AttackOutcome(m3, new_enemy_hp, new_player_hp)

Intent(action, direction, item_id) ==
    [action |-> action, direction |-> direction, item_id |-> item_id]

_handle_action(m, action, pick, skill_damage, taunt) ==
    LET m1 == Emit(m, "processing_finished")
    IN IF action.action = "unknown" THEN Emit(m1, "error:not_understood")
       ELSE IF action.action = "move" THEN _handle_move(m1, action.direction, pick)
       ELSE IF action.action = "pickup" THEN _handle_pickup(m1, action.item_id)
       ELSE IF action.action = "attack"
            THEN _handle_attack(m1, action.item_id, skill_damage, taunt)
       ELSE m1

----------------------------------------------------------------------------
(* Narration slots (run on the main thread when a worker signals) *)

Played(m) == Audio(Emit(m, "narration_text"), "play_clip")

_on_narration_done(m) == Emit(Played(m), "narration_finished")

\* game_won is connected to MainWindow._on_game_won, which opens a modal dialog
_on_win_narration_done(m) ==
    [Emit(Played(m), "game_won") EXCEPT !.dialogs = Append(@, "game_won")]

\* enemy = self._current_enemy; enemy["name"] raises when the enemy is gone
CombatStarted(m, abort) ==
    LET m1 == Emit(Played(m), "narration_finished")
    IN IF m1.current_enemy = NoEnemy THEN Raise(m1, abort)
       ELSE Emit(m1, "combat_started")

_on_boss_entry_narration_done(m, abort) == CombatStarted(m, abort)

_on_monster_encounter_narration_done(m, abort) == CombatStarted(m, abort)

EndCombat(m) ==
    [Emit(Emit(Played(m), "narration_finished"), "combat_ended")
        EXCEPT !.in_combat = FALSE, !.current_enemy = NoEnemy, !.enemy_type = None]

_on_boss_defeat_narration_done(m) == EndCombat(m)

\* faulty variant of _on_monster_defeat_narration_done: no follow-up job
_on_monster_defeat_no_follow_up(m) == Audio(EndCombat(m), "play_bg")

_on_monster_defeat_narration_done(m) ==
    _trigger_narration(Audio(EndCombat(m), "play_bg"))

\* game_over is connected to MainWindow._on_game_over, which opens a modal dialog
_on_death_narration_done(m) ==
    [Emit(Played(m), "game_over") EXCEPT !.dialogs = Append(@, "game_over")]

_on_unlock_narration_done(m) ==
    _trigger_narration(Emit(Played(m), "narration_finished"))

_on_narration_error(m) ==
    Emit(Emit(m, "narration_finished"), "error:narration_failed")

Finished(m, slot, abort) ==
    CASE slot = "narration"         -> _on_narration_done(m)
      [] slot = "win"               -> _on_win_narration_done(m)
      [] slot = "boss_entry"        -> _on_boss_entry_narration_done(m, abort)
      [] slot = "boss_defeat"       -> _on_boss_defeat_narration_done(m)
      [] slot = "monster_encounter" -> _on_monster_encounter_narration_done(m, abort)
      [] slot = "monster_defeat"    -> _on_monster_defeat_narration_done(m)
      [] slot = "death"             -> _on_death_narration_done(m)
      [] slot = "unlock"            -> _on_unlock_narration_done(m)

----------------------------------------------------------------------------
(* Life cycle *)

\* GameState.reset(): defaults, written at once
reset(m) == [m EXCEPT !.st = DEFAULT_STATE, !.disk = DEFAULT_STATE]

\* GameController.__init__: GameState.load() and the first-run item scatter
Construct(m, items) ==
    IF ~_load_ok(m.data.dungeon)
    THEN [Dead(m) EXCEPT !.op = <<"__init__", "ValueError">>]
    ELSE
    LET s0 == load(m.disk)
        m1 == [m EXCEPT !.st = s0, !.disk = s0, !.in_combat = FALSE,
                        !.current_enemy = NoEnemy, !.enemy_type = None,
                        !.jobs = NoJobs, !.dialogs = <<>>,
                        !.is_recording = FALSE, !.stt = NoStt, !.phase = "constructed"]
        m2 == IF needs_item_scatter(m1.st) THEN _scatter_items(m1, items) ELSE m1
    IN Audio(m2, "play_bg")

start_game(m, shuffled) ==
    LET m1 == _emit_inventory(_emit_room_items(_emit_state(m)))
        m2 == IF needs_monster_scatter(m1.st) THEN _scatter_monsters(m1, shuffled) ELSE m1
        m3 == [_emit_map(m2) EXCEPT !.phase = "running"]
        room_id == m3.st.current_room
        boss_id == get_boss_id(m3.data.dungeon, room_id)
    IN IF boss_id # None /\ ~is_boss_cleared(m3.st, boss_id)
       THEN _start_combat(m3, boss_id)
       ELSE _trigger_narration(m3)

restart_after_death(m, items, shuffled) ==
    LET m1 == [reset(m) EXCEPT !.in_combat = FALSE, !.current_enemy = NoEnemy,
                               !.enemy_type = None]
        m2 == Emit(_emit_room_items(_emit_inventory(_emit_state(m1))), "combat_ended")
    IN _trigger_narration(_scatter_monsters(_scatter_items(m2, items), shuffled))

-----------------------------------------------------------------------------
(* Hold-to-talk recording *)

NeverRecording(m) == FALSE

AlreadyRecording(m) == m.is_recording

\* a new stop event and a new worker replace the ones the controller held
on_recording_started(m) ==
    IF AlreadyRecording(m) THEN m
    ELSE Emit([m EXCEPT !.is_recording = TRUE,
                        !.stt = [bound |-> 1,
                                 orphaned |-> m.stt.orphaned + m.stt.bound,
                                 finalising |-> m.stt.finalising]],
              "listening_started")

\* self._stt_stop_event.set(): the worker bound to it stops streaming
on_recording_stopped(m) ==
    IF ~m.is_recording THEN m
    ELSE Emit([m EXCEPT !.is_recording = FALSE,
                        !.stt = [bound |-> 0,
                                 orphaned |-> m.stt.orphaned,
                                 finalising |-> m.stt.finalising + m.stt.bound]],
              "processing_started")

_on_stt_error(m) == Emit(Emit(m, "processing_finished"), "error:voice")

\* the intent comes from IntentParser.parse, a remote model
_on_transcript_ready(m, action, pick, skill_damage, taunt) ==
    _handle_action(m, action, pick, skill_damage, taunt)

----------------------------------------------------------------------------
(* Specification *)

Within(m) ==
    /\ SumOver(m.jobs, Slot) <= MaxJobs
    /\ Len(m.dialogs) <= MaxDialogs
    /\ SttWorkers(m) <= MaxStt

Do(m) == Within(m) /\ Step(m)

Blank(d) ==
    [data |-> Files[d], st |-> DEFAULT_STATE, disk |-> DEFAULT_STATE, in_combat |-> FALSE,
     current_enemy |-> NoEnemy, enemy_type |-> None, jobs |-> NoJobs,
     dialogs |-> <<>>, is_recording |-> FALSE, stt |-> NoStt, phase |-> "dead",
     op |-> <<"__init__", None>>, emitted |-> <<>>, launched |-> <<>>, dirty |-> FALSE]

Holds(d, m) ==
    /\ data = d /\ st = m.st /\ disk = m.disk
    /\ in_combat = m.in_combat /\ current_enemy = m.current_enemy
    /\ enemy_type = m.enemy_type /\ jobs = m.jobs /\ dialogs = m.dialogs
    /\ is_recording = m.is_recording /\ stt = m.stt
    /\ phase = m.phase /\ op = m.op /\ emitted = m.emitted
    /\ launched = m.launched /\ dirty = m.dirty

\* first launch: no state file, defaults are written, items are scattered
InitIn(d) ==
    \E items \in Perms(ScatterableItems(Files[d].item_registry)) :
        Holds(d, Construct(Blank(d), items))

Init == InitIn("main")

InitArmory == InitIn("armory")

InitShield == InitIn("shield")

InitPotion == InitIn("potion")

\* the program launched with two or with three roamers for two normal rooms
InitPack == InitIn("pair") \/ InitIn("horde")

InitCrypt == InitIn("crypt")

\* the program launched in any of the directories of LoadFiles
InitLoad == \E d \in DOMAIN LoadFiles : InitIn(d)

StartGame ==
    /\ phase = "constructed"
    /\ \E shuffled \in Perms(MonsterEligibleRooms(Files[data].dungeon)) :
           Do(start_game(Cur("start_game", None), shuffled))

Acted(m, arg) ==
    IF m.launched = <<>> /\ m.op[1] # "move" THEN m ELSE [m EXCEPT !.op = <<m.op[1], arg>>]

\* _on_transcript_ready hands the parser's intent to _handle_action.  While a
\* modal dialog is open the window gets no key events, so no recording ends.
Handle(action, pick, skill_damage, taunt) ==
    /\ phase = "running"
    /\ dialogs = <<>>
    /\ Do(Acted(_handle_action(Cur(action.action, None), action, pick, skill_damage, taunt),
                IF action.action = "move" THEN action.direction ELSE action.item_id))

NoPick == [mid \in DOMAIN st.monster_positions |-> st.monster_positions[mid]]

UnknownIntent == Handle(Intent("unknown", None, None), NoPick, 0, FALSE)

MoveIntent ==
    \E direction \in Directions, pick \in MoveChoices(Files[data].dungeon, st) :
        Handle(Intent("move", direction, None), pick, 0, FALSE)

PickupIntent ==
    \E item_id \in DOMAIN Files[data].item_registry \cup {"ghost"} :
        Handle(Intent("pickup", None, item_id), NoPick, 0, FALSE)

AttackIntent ==
    \E item_id \in DOMAIN Files[data].item_registry \cup {"ghost"},
       skill_damage \in current_enemy.skills \cup {0}, taunt \in BOOLEAN :
        /\ (skill_damage = 0) = (current_enemy.skills = {})
        /\ (taunt => enemy_type = "boss")
        /\ Handle(Intent("attack", None, item_id), NoPick, skill_damage, taunt)

NarrationFinished ==
    /\ phase = "running"
    /\ \E slot \in Slot, abort \in BOOLEAN :
           /\ jobs[slot] > 0
           /\ Do(Finished([Cur("finished", slot) EXCEPT !.jobs[slot] = @ - 1], slot, abort))

NarrationFailed ==
    /\ phase = "running"
    /\ \E slot \in Slot :
           /\ jobs[slot] > 0
           /\ Do(_on_narration_error([Cur("error", slot) EXCEPT !.jobs[slot] = @ - 1]))

\* the dialog is closed: MainWindow calls restart_after_death
DialogDismissed ==
    /\ phase = "running"
    /\ dialogs # <<>>
    /\ \E items \in Perms(ScatterableItems(Files[data].item_registry)),
          shuffled \in Perms(MonsterEligibleRooms(Files[data].dungeon)) :
           Do(restart_after_death([Cur("restart_after_death", None) EXCEPT !.dialogs = SubSeq(@, 1, Len(@) - 1)],
                                  items, shuffled))

\* MainWindow.closeEvent: reset_game_state, then the process ends
CloseEvent ==
    /\ phase = "running"
    /\ Do(Dead(reset(Cur("closeEvent", None))))

\* the process is killed
Crash ==
    /\ phase \in {"constructed", "running"}
    /\ Do(Dead(Cur("crash", None)))

Launch ==
    /\ phase = "dead"
    /\ \E items \in Perms(ScatterableItems(Files[data].item_registry)) :
           Do(Construct(Cur("__init__", None), items))

Next ==
    \/ StartGame
    \/ UnknownIntent
    \/ MoveIntent
    \/ PickupIntent
    \/ AttackIntent
    \/ NarrationFinished
    \/ NarrationFailed
    \/ DialogDismissed
    \/ CloseEvent
    \/ Crash
    \/ Launch

Spec == Init /\ [][Next]_vars

SpecArmory == InitArmory /\ [][Next]_vars

SpecShield == InitShield /\ [][Next]_vars

SpecPotion == InitPotion /\ [][Next]_vars

\* the program started with two weapons or with a piece of armor to find
SpecGear == (InitArmory \/ InitShield) /\ [][Next]_vars

SpecLoad == InitLoad /\ [][Next]_vars

SpecPack == InitPack /\ [][Next]_vars

SpecCrypt == InitCrypt /\ [][Next]_vars

\* two roamers that can step into the same room
SpecDen == InitIn("den") /\ [][Next]_vars

\* the keyring data, the shuffle of the first launch leaving the keys in order
InitKeyring ==
    Holds("keyring",
          Construct(Blank("keyring"),
                    <<"k1", "k2", "k3", "k4", "k5", "k6", "k7", "k8", "k9">>))

\* the player asks for the item named first in the room
PickupFirstIntent ==
    /\ get_room_items(st, st.current_room) # <<>>
    /\ Handle(Intent("pickup", None, get_room_items(st, st.current_room)[1]), NoPick, 0, FALSE)

NextKeyring ==
    \/ StartGame
    \/ UnknownIntent
    \/ MoveIntent
    \/ PickupFirstIntent
    \/ NarrationFinished
    \/ NarrationFailed

\* a player who collects the keys in the order the room lists them
SpecKeyring == InitKeyring /\ [][NextKeyring]_vars

\* the keyring data with the voice pipeline: an intent arrives only as the
\* final transcript of a recording that was stopped
RecordingStarted ==
    /\ phase = "running"
    /\ dialogs = <<>>
    /\ Do(on_recording_started(Cur("on_recording_started", None)))

RecordingStopped ==
    /\ phase = "running"
    /\ dialogs = <<>>
    /\ Do(on_recording_stopped(Cur("on_recording_stopped", None)))

SttStages == {"bound", "orphaned", "finalising"}

\* the worker ends in its except branch
SttFailed ==
    /\ phase = "running"
    /\ \E stage \in SttStages :
           /\ stt[stage] > 0
           /\ Do(_on_stt_error([Cur("stt_error", None) EXCEPT !.stt[stage] = @ - 1]))

TranscriptReady ==
    /\ phase = "running"
    /\ dialogs = <<>>
    /\ stt.finalising > 0
    /\ \E action \in {Intent("unknown", None, None)}
                     \cup {Intent("move", direction, None) : direction \in Directions}
                     \cup {Intent("pickup", None, get_room_items(st, st.current_room)[i]) :
                              i \in DOMAIN get_room_items(st, st.current_room) \cap {1}} :
           Do(Acted(_on_transcript_ready(
                        [Cur(action.action, None) EXCEPT !.stt.finalising = @ - 1],
                        action, NoPick, 0, FALSE),
                    IF action.action = "move" THEN action.direction ELSE action.item_id))

NextRecording ==
    \/ StartGame
    \/ RecordingStarted
    \/ RecordingStopped
    \/ SttFailed
    \/ TranscriptReady
    \/ NarrationFinished
    \/ NarrationFailed

SpecRecording == InitKeyring /\ [][NextRecording]_vars

\* GameState driven through its item methods alone, from the state a first
\* launch leaves in the armory data
ApiSlots == {"weapon", "shield"}

EquipCall ==
    \E slot \in ApiSlots, item_id \in DOMAIN Files[data].item_registry :
        Do([Cur("equip_item", item_id) EXCEPT !.st = equip_item(@, slot, item_id)])

AddToBagCall ==
    /\ Len(st.bag) < ApiBag
    /\ \E item_id \in DOMAIN Files[data].item_registry :
           Do([Cur("add_to_bag", item_id) EXCEPT !.st = add_to_bag(@, item_id)])

RemoveFromBagCall ==
    \E item_id \in DOMAIN Files[data].item_registry :
        Do([Cur("remove_from_bag", item_id) EXCEPT !.st = remove_from_bag(@, item_id)])

RemoveFromInventoryCall ==
    \E item_id \in DOMAIN Files[data].item_registry :
        Do([Cur("remove_from_inventory", item_id)
               EXCEPT !.st = remove_from_inventory(@, item_id)])

NextApi ==
    \/ EquipCall
    \/ AddToBagCall
    \/ RemoveFromBagCall
    \/ RemoveFromInventoryCall

SpecApi == InitArmory /\ [][NextApi]_vars

\* GameState.save() called on its own
SaveCall ==
    /\ phase = "constructed"
    /\ Do(save(Cur("save", None)))

\* a GameState constructed over the state file: load() reads it, backfills an
\* empty weapon slot and writes the file again when it did
LoadCall ==
    /\ phase = "constructed"
    /\ Do([Cur("load", None) EXCEPT !.st = load(disk), !.disk = load(disk)])

NextRoundTrip ==
    \/ EquipCall
    \/ AddToBagCall
    \/ RemoveFromBagCall
    \/ RemoveFromInventoryCall
    \/ SaveCall
    \/ LoadCall

SpecRoundTrip == InitShield /\ [][NextRoundTrip]_vars

\* the program started in either data directory
SpecAll == (Init \/ InitArmory) /\ [][Next]_vars

----------------------------------------------------------------------------
(* Properties *)

Dungeon == Files[data].dungeon

Registry == Files[data].item_registry

\* the room a move in `direction` resolves to from the player's room
Target(direction) == Get(Dungeon.rooms[st.current_room].exits, direction, None)

\* the step is a move intent in `direction`
MoveStep(direction) == op' = <<"move", direction>> /\ phase = "running" /\ phase' = "running"

\* C1: at most one narrative job is in flight at any time; an intent that
\* arrives while an earlier job has neither completed nor failed never
\* launches a second, concurrent job.
C1_SingleFlight == JobsInFlight <= 1

\* C2: no UI notification is emitted, no audio is played and no narrative job
\* is launched at a moment when the in-memory state differs from the
\* persisted state.
C2_PersistedBeforeEffect == ~dirty

RECURSIVE CountIn(_, _)
CountIn(seq, x) ==
    IF seq = <<>> THEN 0
    ELSE (IF Head(seq) = x THEN 1 ELSE 0) + CountIn(Tail(seq), x)

RECURSIVE CountOver(_, _, _)
\* occurrences of item_id on the floors of `rooms`
CountOver(s, rooms, item_id) ==
    IF rooms = {} THEN 0
    ELSE LET r == CHOOSE x \in rooms : TRUE
         IN CountIn(s.room_items[r], item_id) + CountOver(s, rooms \ {r}, item_id)

\* occurrences of item_id on all floors, in all equip slots and in the bag
Occurrences(s, item_id) ==
    CountOver(s, DOMAIN s.room_items, item_id)
    + Cardinality({sl \in Slots : s.equipped[sl] = item_id})
    + CountIn(s.bag, item_id)

\* C3: in every reachable state no item id appears in more than one of the
\* floor lists, the equip slots and the bag, and none appears twice in them.
C3_NoDuplication ==
    \A item_id \in DOMAIN Registry :
        Occurrences(st, item_id) <= 1 /\ Occurrences(disk, item_id) <= 1

\* a weapon was picked up and the weapon it displaced lies on the floor
C3_Swapped ==
    /\ op = <<"pickup", "axe">>
    /\ launched = <<"swap">>
    /\ st.equipped["weapon"] = "axe"
    /\ "sword" \in Range(get_room_items(st, st.current_room))

\* some guarded room's guardian is not in the cleared set
GuardianUncleared(s) ==
    \E r \in DOMAIN Dungeon.rooms :
        Dungeon.rooms[r].boss_id # None /\ Dungeon.rooms[r].boss_id \notin s.cleared_bosses

\* room t is the exit room and the exit is sealed
SealedExit(t) == t # None /\ Dungeon.rooms[t].type = "exit" /\ GuardianUncleared(st)

C4_BlockedStep ==
    \A direction \in Directions :
        (MoveStep(direction) /\ SealedExit(Target(direction)))
        => (st'.current_room = st.current_room /\ launched' = <<"exit_blocked">>)

C4_NeverInSealedExit ==
    Dungeon.rooms[st.current_room].type = "exit" => ~GuardianUncleared(st)

\* C4: a move intent whose target is the exit room while some guardian is
\* uncleared leaves the player where they are and launches an exit-sealed job;
\* the player is never in the exit room while some guardian is uncleared.
C4_ExitGate == [][C4_BlockedStep /\ C4_NeverInSealedExit']_vars

\* a move toward the sealed exit was answered with the exit-sealed narration
C4_Blocked ==
    /\ op[1] = "move"
    /\ launched = <<"exit_blocked">>
    /\ SealedExit(Target(op[2]))

NewEncounter == launched' \in {<<"boss_entry">>, <<"monster_encounter">>}

\* C5: whenever a move intent changes the player's room while in combat, the
\* previous combat is cancelled (enemy discarded, combat-ended notification
\* fired) and afterwards the controller is in combat only if a new encounter
\* started in the target room.
C5_MoveIsFlee ==
    [][\A direction \in Directions :
          (MoveStep(direction) /\ in_combat /\ st'.current_room # st.current_room)
          => /\ "combat_ended" \in Range(emitted')
             /\ in_combat' => NewEncounter
             /\ ~NewEncounter => (~in_combat' /\ current_enemy' = NoEnemy)]_vars

\* the step is an accepted attack: the exchange was applied
Exchange == op'[1] = "attack" /\ "combat_updated" \in Range(emitted')

DefeatFlow ==
    \/ /\ enemy_type = "boss"
       /\ launched' = <<"boss_defeat">>
       /\ current_enemy.id \in st'.cleared_bosses
    \/ /\ enemy_type = "monster"
       /\ launched' = <<"monster_defeat">>
       /\ current_enemy.id \notin DOMAIN st'.monster_positions

\* C6: after an attack exchange exactly one outcome is taken, in this order:
\* enemy hp <= 0 -> defeat flow (guardian cleared or roamer removed, defeat job);
\* else player hp <= 0 -> death job; else a combat-round job and the controller
\* stays in combat.  An item dealing d against an enemy with hp = d gives hp 0
\* and the defeat flow.
C6_AttackOutcome ==
    [][Exchange =>
          /\ Len(launched') = 1
          /\ current_enemy'.current_hp <= 0 => DefeatFlow
          /\ (current_enemy'.current_hp > 0 /\ st'.hp <= 0) => launched' = <<"death">>
          /\ (current_enemy'.current_hp > 0 /\ st'.hp > 0)
             => (launched' = <<"combat_round">> /\ in_combat')
          /\ current_enemy.current_hp = Registry[op'[2]].damage
             => (current_enemy'.current_hp = 0 /\ DefeatFlow)]_vars

\* the sword (damage 10) has just brought down the ogre (10 hit points)
C6_ExactKill ==
    /\ op = <<"attack", "sword">>
    /\ launched = <<"boss_defeat">>
    /\ current_enemy.id = "ogre"
    /\ current_enemy.current_hp = 0
    /\ "ogre" \in st.cleared_bosses

\* the enemy was brought to 0 hit points and the defeat flow was launched
Defeated == in_combat /\ current_enemy # NoEnemy /\ current_enemy.current_hp = 0

\* C7: once an attack has reduced the enemy to 0 hit points and the defeat
\* flow has been launched, every later attack intent is rejected: no further
\* exchange, no second defeat job.  Stated for the attack intents that arrive
\* when no narrative job is in flight, the others being the matter of C1.
C7_NoAttackAfterDefeat ==
    [][(Defeated /\ JobsInFlight = 0)
       => ~(Exchange \/ (op'[1] = "attack" /\ launched' # <<>>))]_vars

Running == phase = "running" /\ phase' = "running"

\* the world after the step is the world before it, hit points aside
WorldKept ==
    st' = [st EXCEPT !.hp = st'.hp, !.boss_hp = st'.boss_hp, !.monster_hp = st'.monster_hp]

\* C8: an attack that leaves the player at 0 hit points with the enemy alive
\* launches a death job and does not reset the world; the world is restored to
\* defaults only after the death narrative has completed, game over has been
\* signalled and the dialog has been dismissed.
C8_ResetDeferred ==
    [][Running =>
          /\ (Exchange /\ st'.hp = 0 /\ current_enemy'.current_hp > 0)
             => (launched' = <<"death">> /\ WorldKept)
          /\ jobs["death"] > 0 => op'[1] # "restart_after_death"]_vars

LockedAhead(t) == t # None /\ is_locked(Dungeon, t) /\ t \notin st.unlocked_rooms

KeyInBag(t) ==
    get_required_key(Dungeon, t) # None /\ get_required_key(Dungeon, t) \in Range(st.bag)

KeyHeld(t) ==
    get_required_key(Dungeon, t) # None /\ get_required_key(Dungeon, t) \in inventory(st)

Unlocked(t) ==
    /\ CountIn(st'.bag, get_required_key(Dungeon, t))
         = CountIn(st.bag, get_required_key(Dungeon, t)) - 1
    /\ st'.unlocked_rooms = st.unlocked_rooms \cup {t}
    /\ st'.current_room = t
    /\ disk' = st'
    /\ launched' = <<"unlock">>

UnlockChains == (op' = <<"finished", "unlock">> /\ Running) => launched' = <<"room">>

\* C9 as stated: a move intent into a locked, not yet unlocked room with the
\* key in the bag consumes the key, unlocks the room, moves the player,
\* persists and launches an unlock job whose completion chains into the
\* room-entry narration.
C9_UnlockWithKey ==
    [][/\ \A direction \in Directions :
              (MoveStep(direction) /\ LockedAhead(Target(direction))
                                   /\ KeyInBag(Target(direction)))
              => Unlocked(Target(direction))
       /\ UnlockChains]_vars

\* C9 amended: the same, unless the locked room is the exit room while a
\* guardian is uncleared (the exit gate is tested first).
C9_UnlockUnlessSealed ==
    [][/\ \A direction \in Directions :
              (MoveStep(direction) /\ LockedAhead(Target(direction))
                                   /\ KeyInBag(Target(direction))
                                   /\ ~SealedExit(Target(direction)))
              => Unlocked(Target(direction))
       /\ UnlockChains]_vars

\* the key has just opened the vault
C9_VaultOpened ==
    /\ op = <<"move", "east">>
    /\ launched = <<"unlock">>
    /\ st.current_room = "vault"
    /\ "vault" \in st.unlocked_rooms
    /\ "key" \notin Range(st.bag)

StaysLocked ==
    /\ st'.current_room = st.current_room
    /\ st'.bag = st.bag
    /\ st'.unlocked_rooms = st.unlocked_rooms
    /\ launched' = <<"locked">>

\* C10 as stated: a move intent into a locked, not yet unlocked room without
\* the key leaves position, bag and unlocked set unchanged and launches a
\* "locked" job.
C10_LockedWithoutKey ==
    [][\A direction \in Directions :
          (MoveStep(direction) /\ LockedAhead(Target(direction))
                               /\ ~KeyHeld(Target(direction)))
          => StaysLocked]_vars

\* C10 amended: the same, unless the locked room is the exit room while a
\* guardian is uncleared (then the exit-sealed job is launched instead).
C10_LockedUnlessSealed ==
    [][\A direction \in Directions :
          (MoveStep(direction) /\ LockedAhead(Target(direction))
                               /\ ~KeyHeld(Target(direction))
                               /\ ~SealedExit(Target(direction)))
          => StaysLocked]_vars

\* the vault door stayed shut: no key
C10_VaultShut ==
    /\ op = <<"move", "east">>
    /\ launched = <<"locked">>
    /\ st.current_room = "hall"
    /\ "vault" \notin st.unlocked_rooms

\* the handler changed nothing but what it reports: no world change, no job
Quiet ==
    /\ st' = st /\ disk' = disk
    /\ in_combat' = in_combat /\ current_enemy' = current_enemy /\ enemy_type' = enemy_type
    /\ jobs' = jobs /\ launched' = <<>>

Errors == {"error:no_such_exit", "error:not_here", "error:unknown_item", "error:bag_full",
           "error:cannot_pick_up", "error:not_in_combat", "error:not_held",
           "error:not_understood"}

\* the handler reported exactly the error `e`
Refused(e) == Quiet /\ Range(emitted') \cap Errors = {e}

AttackStep == op'[1] = "attack" /\ Running

\* C11: an attack intent received when not in combat, or naming an item that
\* is neither equipped nor in the bag, is rejected with an error notification:
\* hit points, combat status and the rest of the world are unchanged and no
\* narrative job is launched.  (An attack is acted upon only in combat and with
\* a held item; every other attack intent is refused.)
C11_AttackRefused ==
    [][AttackStep =>
          /\ ~in_combat => Refused("error:not_in_combat")
          /\ Exchange => (in_combat /\ op'[2] \in inventory(st))
          /\ ~Exchange => (Refused("error:not_in_combat") \/ Refused("error:not_held"))
          /\ Refused("error:not_held") => in_combat]_vars

\* in combat, an attack naming an item that is not held was refused
C11_NotHeld ==
    /\ op[1] = "attack"
    /\ in_combat
    /\ "error:not_held" \in Range(emitted)
    /\ launched = <<>>

\* total defense: the defense values of the items in the non-weapon slots
Defense(s) ==
    LET worn == {sl \in Slots \ {"weapon"} : s.equipped[sl] # None}
    IN SumOver([sl \in worn |-> Registry[s.equipped[sl]].defense], worn)

Floor0(x) == IF x < 0 THEN 0 ELSE x

\* C12: in an attack exchange the enemy's new hit points are
\* max(0, enemy_hp - item damage) and the player's are
\* max(0, player_hp - max(0, retaliation - D)), D the sum of the defense of the
\* items in the non-weapon slots; neither is negative and the player gains none.
C12_Arithmetic ==
    [][Exchange =>
          /\ current_enemy'.current_hp
               = Floor0(current_enemy.current_hp - Registry[op'[2]].damage)
          /\ \E retaliation \in current_enemy.skills :
                 st'.hp = Floor0(st.hp - Floor0(retaliation - Defense(st)))
          /\ current_enemy'.current_hp >= 0
          /\ st'.hp >= 0
          /\ st'.hp <= st.hp]_vars

\* behind the shield (defense 60) the ogre's strong skill (100) took 40
C12_Shielded ==
    /\ op[1] = "attack"
    /\ "combat_updated" \in Range(emitted)
    /\ st.equipped["shield"] = "shield"
    /\ current_enemy.id = "ogre"
    /\ st.hp = 60

PickupStep == op'[1] = "pickup" /\ Running

\* C13: a pickup intent for an item id that is not on the floor of the
\* player's room is rejected with a "not here" error: floors, equip slots, bag
\* and hit points are unchanged and no narrative job is launched.  (A pickup is
\* acted upon only for an item lying in the player's room; every other pickup
\* intent is refused.)
C13_NotHere ==
    [][PickupStep =>
          /\ launched' # <<>> => op'[2] \in Range(get_room_items(st, st.current_room))
          /\ launched' = <<>> => Refused("error:not_here")]_vars

\* a pickup was refused while the item asked for lies in another room
C13_Elsewhere ==
    /\ op[1] = "pickup"
    /\ "error:not_here" \in Range(emitted)
    /\ launched = <<>>
    /\ \E r \in DOMAIN st.room_items : r # st.current_room /\ st.room_items[r] # <<>>

\* C15: an unknown intent, a move intent whose direction resolves to no exit
\* of the current room, or a pickup / attack intent naming an unknown item id
\* changes nothing in the world and launches no narrative job; only an error
\* notification is emitted.
C15_NoEffect ==
    [][Running =>
          /\ op'[1] = "unknown" => Refused("error:not_understood")
          /\ \A direction \in Directions :
                 (MoveStep(direction) /\ Target(direction) = None)
                 => Refused("error:no_such_exit")
          /\ (op'[1] \in {"pickup", "attack"} /\ launched' # <<>>)
             => op'[2] \in DOMAIN Registry
          /\ (op'[1] \in {"pickup", "attack"} /\ launched' = <<>>)
             => \E e \in Errors : Refused(e)]_vars

\* a move in a direction without exit was refused
C15_NoSuchExit ==
    /\ op[1] = "move"
    /\ Target(op[2]) = None
    /\ "error:no_such_exit" \in Range(emitted)
    /\ launched = <<>>

BagWithinCap(s) == Len(s.bag) <= INVENTORY_CAP

\* what add_to_bag answers and does in state s, for every item id
AddToBagContract(s) ==
    \A item_id \in DOMAIN Registry :
        IF Len(s.bag) >= INVENTORY_CAP
        THEN ~add_to_bag_ok(s) /\ add_to_bag(s, item_id) = s
        ELSE add_to_bag_ok(s) /\ add_to_bag(s, item_id).bag = Append(s.bag, item_id)

\* C14: the bag never holds more than the fixed capacity: add_to_bag returns
\* false and leaves the bag unchanged at capacity, and a key pickup in that
\* case is an error that leaves the floor list and the bag unchanged.
C14_BagCap ==
    [][/\ BagWithinCap(st') /\ BagWithinCap(disk')
       /\ AddToBagContract(st')
       /\ (PickupStep /\ Len(st.bag) >= INVENTORY_CAP) => Refused("error:bag_full")]_vars

\* the ninth key was refused: the bag holds eight and the key is still there
C14_Full ==
    /\ op[1] = "pickup"
    /\ "error:bag_full" \in Range(emitted)
    /\ Len(st.bag) = INVENTORY_CAP
    /\ get_room_items(st, st.current_room) = <<"k9">>

\* the step is the failure slot of a narrative job
FailureStep == op'[1] = "error" /\ Running

\* C16: when a narrative job fails an error notification is surfaced and the
\* failure handler changes neither the world nor the state file and launches
\* nothing; every job is launched with the world already persisted, so the
\* failure rolls nothing back and loses nothing.
C16_FailureIsCosmetic ==
    [][Running
       => /\ FailureStep
             => /\ "error:narration_failed" \in Range(emitted')
                /\ st' = st
                /\ disk' = disk
                /\ launched' = <<>>
          /\ launched' # <<>> => st' = disk']_vars

\* a slot that opened a modal dialog is still on the stack of the main thread
SlotOnStack == dialogs # <<>>

\* C17: the world is touched only by steps of the main thread, and each slot
\* or intent handler runs to its end before the next one starts: while a slot
\* is still on the stack (blocked in its dialog), no other slot or intent
\* handler runs; the only step is the return from the dialog.
C17_NoInterleaving ==
    [][(SlotOnStack /\ Running) => op'[1] = "restart_after_death"]_vars

\* the step changed nothing and notified nobody
NoOp ==
    /\ Quiet
    /\ emitted' = <<>>
    /\ dialogs' = dialogs
    /\ is_recording' = is_recording
    /\ stt' = stt

\* C18: on_recording_started while a recording is active is a no-op: it creates
\* no second voice-stream worker and emits no second listening-started, so
\* never more than one worker is streaming; started with no recording active
\* it creates exactly one worker and emits listening-started once; and
\* on_recording_stopped with no active recording is a no-op.
C18_RecordingSingleFlight ==
    [][Running
       => /\ (op'[1] = "on_recording_started" /\ is_recording) => NoOp
          /\ (op'[1] = "on_recording_started" /\ ~is_recording)
             => /\ is_recording'
                /\ stt'.bound = 1
                /\ stt'.finalising = stt.finalising
                /\ emitted' = <<"listening_started">>
          /\ (op'[1] = "on_recording_stopped" /\ ~is_recording) => NoOp
          /\ stt'.bound + stt'.orphaned <= 1
          /\ stt'.orphaned = 0]_vars

\* a second press while the recording of the first is active was ignored
C18_SecondPress ==
    /\ op[1] = "on_recording_started"
    /\ emitted = <<>>
    /\ is_recording
    /\ stt.bound = 1

\* the controller is fighting a guardian that is in the cleared set
FightingCleared ==
    /\ in_combat
    /\ enemy_type = "boss"
    /\ current_enemy.id \in st.cleared_bosses

\* C19: a cleared guardian never takes part in combat with nonzero hit points:
\* no boss-entry job is launched against a cleared guardian, no attack exchange
\* is resolved against one, a guardian joins the cleared set only with 0 hit
\* points, and every cleared guardian is at 0 hit points afterwards.
C19_ClearedOutOfCombat ==
    [][Running
       => /\ "boss_entry" \in Range(launched') => current_enemy'.id \notin st'.cleared_bosses
          /\ Exchange => ~FightingCleared
          /\ \A boss_id \in st'.cleared_bosses \ st.cleared_bosses :
                /\ boss_id \in DOMAIN st'.boss_hp
                /\ st'.boss_hp[boss_id] = 0
          /\ \A boss_id \in st'.cleared_bosses :
                /\ boss_id \in DOMAIN st'.boss_hp
                /\ st'.boss_hp[boss_id] = 0]_vars

NoDuplicates(s) == \A item_id \in DOMAIN Registry : Occurrences(s, item_id) <= 1

Placing == op'[1] \in {"equip_item", "add_to_bag"}

HealAmounts == {0, 30, 50, 80, 100, 150}

MinOf(x, y) == IF x < y THEN x ELSE y

\* the potion the last step drank, if it was a potion pickup
Drunk == op'[1] = "pickup" /\ launched' = <<"potion">>

\* C21: heal never raises hit points above max: in every reachable state
\* (hp h <= max m) and for every amount a >= 0 the new hit points are
\* min(h + a, m) and the value returned is the gain actually applied, 0 at full
\* health; a potion pickup applies exactly that with the potion's heal value.
C21_HealClamped ==
    [][/\ st'.hp <= st'.max_hp
       /\ \A amount \in HealAmounts :
             /\ heal(st', amount).hp = MinOf(st'.hp + amount, st'.max_hp)
             /\ heal(st', amount) = [st' EXCEPT !.hp = MinOf(st'.hp + amount, st'.max_hp)]
             /\ heal_gained(st', amount) = MinOf(st'.hp + amount, st'.max_hp) - st'.hp
             /\ heal_gained(st', amount) >= 0
             /\ st'.hp = st'.max_hp => heal_gained(st', amount) = 0
       /\ (Drunk /\ Running)
          => /\ st'.hp = MinOf(st.hp + Registry[op'[2]].heal, st.max_hp)
             /\ st'.hp >= st.hp]_vars

\* the elixir (80) was drunk by a player wounded in the fight still going on:
\* the hit points stopped at max
C21_Capped ==
    /\ op = <<"pickup", "elixir">>
    /\ launched = <<"potion">>
    /\ st.hp = st.max_hp
    /\ disk.hp = st.max_hp
    /\ "elixir" \notin Range(get_room_items(st, st.current_room))
    /\ in_combat
    /\ current_enemy.current_hp < current_enemy.max_hp

\* room t has a guardian that is not cleared
GuardianAhead(t) ==
    /\ t # None
    /\ Dungeon.rooms[t].boss_id # None
    /\ Dungeon.rooms[t].boss_id \notin st.cleared_bosses

BossEntered(t) ==
    /\ st'.current_room = t
    /\ disk' = move_player(st, t)
    /\ in_combat'
    /\ enemy_type' = "boss"
    /\ current_enemy'.id = Dungeon.rooms[t].boss_id
    /\ launched' = <<"boss_entry">>
    /\ st'.monster_positions = st.monster_positions

\* C22: a move intent whose target room is neither a sealed exit nor still
\* locked and has an uncleared guardian moves the player into that room,
\* persists the move, and puts the controller in combat with that guardian
\* through a boss-entry job; no monster moves and no room-entry job is
\* launched.
C22_BossEntry ==
    [][\A direction \in Directions :
          (MoveStep(direction) /\ GuardianAhead(Target(direction))
                               /\ ~SealedExit(Target(direction))
                               /\ ~LockedAhead(Target(direction)))
          => BossEntered(Target(direction))]_vars

\* the player has just walked into the lair of the living ogre
C22_InTheLair ==
    /\ op = <<"move", "north">>
    /\ launched = <<"boss_entry">>
    /\ st.current_room = "lair"
    /\ disk.current_room = "lair"
    /\ in_combat
    /\ current_enemy.id = "ogre"

\* room t is the exit room and every guardian is cleared
OpenExit(t) == t # None /\ Dungeon.rooms[t].type = "exit" /\ ~GuardianUncleared(st)

Victory(t) ==
    /\ st'.current_room = t
    /\ disk'.current_room = t
    /\ launched' = <<"win">>
    /\ st'.monster_positions = st.monster_positions

\* game_won is emitted by the completion of a victory job and by nothing else
WonOnCompletion ==
    Running => ("game_won" \in Range(emitted') <=> op' = <<"finished", "win">>)

\* C23: a move into the exit room when every guardian is cleared
\* moves and persists the player and launches a victory job instead of a
\* room-entry job, without a monster step; the game-won notification is
\* emitted only when that victory job completes.
C23_ExitWins ==
    [][/\ \A direction \in Directions :
              (MoveStep(direction) /\ OpenExit(Target(direction))
                                   /\ st'.current_room = Target(direction))
              => Victory(Target(direction))
       /\ WonOnCompletion]_vars

\* what does hold: an exit room that is not locked, or was unlocked before,
\* gives the victory job; a still locked one is handled by the locked-room
\* step, which launches an unlock or a locked job and never a victory job
UnlockedExitWins ==
    [][/\ \A direction \in Directions :
              /\ (MoveStep(direction) /\ OpenExit(Target(direction))
                                      /\ ~LockedAhead(Target(direction)))
                 => Victory(Target(direction))
              /\ (MoveStep(direction) /\ OpenExit(Target(direction))
                                      /\ LockedAhead(Target(direction)))
                 => launched' \in {<<"unlock">>, <<"locked">>}
       /\ WonOnCompletion]_vars


-----------------------------------------------------------------------------
(* Loading the room graph *)

RoomsOfType(type) == {r \in DOMAIN Dungeon.rooms : Dungeon.rooms[r].type = type}

\* the exits of the map whose target is not a room of the map
dangling_exits(d) ==
    {<<r, direction>> \in (DOMAIN d.rooms) \X Directions :
        /\ direction \in DOMAIN d.rooms[r].exits
        /\ d.rooms[r].exits[direction] \notin DOMAIN d.rooms}

\* the state right after GameController.__init__ returned or raised
Constructing == op[1] = "__init__"

MapLoaded == phase = "constructed"

MapRefused == phase = "dead" /\ op = <<"__init__", "ValueError">>

\* C24 as stated: the room graph loads exactly when it has exactly one room of
\* kind start and at least one room of kind exit; otherwise the load fails.
\* A dangling exit target does not make the load fail.
C24_LoadExactlyOneStart ==
    Constructing =>
        /\ MapLoaded <=> (Cardinality(RoomsOfType("home")) = 1 /\ RoomsOfType("exit") # {})
        /\ ~MapLoaded => MapRefused

\* C24 amended: the room graph loads exactly when it has at least one room of
\* kind start and at least one room of kind exit, however many start rooms
\* there are; otherwise the load fails with ValueError. A dangling exit target
\* does not make the load fail.
C24_LoadNeedsStartAndExit ==
    Constructing =>
        /\ MapLoaded <=> (RoomsOfType("home") # {} /\ RoomsOfType("exit") # {})
        /\ ~MapLoaded => MapRefused
        /\ (MapLoaded \/ MapRefused)

\* a map with a dangling exit has been loaded
C24_DanglingLoaded ==
    /\ Constructing /\ MapLoaded
    /\ dangling_exits(Dungeon) = {<<"hall", "east">>}
    /\ Cardinality(RoomsOfType("home")) = 1

\* resolve_direction answers None or a room of the map, from every room
Resolves ==
    \A room \in Range(all_room_ids(Dungeon)), direction \in Directions :
        resolve_direction(Dungeon, room, direction)
            \in {None} \cup Range(all_room_ids(Dungeon))

\* C25: for every room of a successfully loaded graph and every direction,
\* resolve(room, direction) is None or an id present in all_room_ids(); it
\* never fails and never returns the id of a room that does not exist, so a
\* move intent in any direction is handled to its end.
C25_ResolveTotal ==
    [][phase = "running" =>
        /\ Resolves
        /\ \A direction \in Directions :
              op' = <<"move", direction>> =>
                  /\ Target(direction) \in {None} \cup Range(all_room_ids(Dungeon))
                  /\ phase' = "running"]_vars

\* on a map whose exits all lead to rooms of the map the same holds
ResolveTotalWhenClosed ==
    [][(phase = "running" /\ dangling_exits(Dungeon) = {}) =>
        /\ Resolves
        /\ \A direction \in Directions :
              op' = <<"move", direction>> =>
                  /\ Target(direction) \in {None} \cup Range(all_room_ids(Dungeon))
                  /\ phase' = "running"]_vars

-----------------------------------------------------------------------------
(* Persist and reload *)

\* the step reloads a state file that holds the state in memory
ReloadOfSaved == op' = <<"load", None>> /\ disk = st

\* C26: round trip: for every state reachable through the mutation API,
\* persisting it and then reloading it yields an identical state, and the
\* load-time backfill changes nothing.
C26_RoundTrip == [][ReloadOfSaved => (st' = st /\ disk' = disk)]_vars

\* the round trip is the identity on every state whose weapon slot is filled
RoundTripWhenArmed ==
    [][(ReloadOfSaved /\ st.equipped["weapon"] # None) => (st' = st /\ disk' = disk)]_vars

\* the weapon slot is emptied only by remove_from_inventory
WeaponSlotEmptied ==
    [][(st.equipped["weapon"] # None /\ st'.equipped["weapon"] = None)
          => op'[1] = "remove_from_inventory"]_vars

-----------------------------------------------------------------------------
(* Normal movement *)

\* room t is entered by normal movement: not sealed, not locked, no uncleared
\* guardian in it, not the exit room
NormalAhead(t) ==
    /\ t # None
    /\ ~SealedExit(t) /\ ~LockedAhead(t) /\ ~GuardianAhead(t)
    /\ Dungeon.rooms[t].type # "exit"

\* every roamer made one step of move_all: to an adjacent room of kind normal,
\* or none when it has no such neighbour
SteppedOnce ==
    /\ DOMAIN st'.monster_positions = DOMAIN st.monster_positions
    /\ \A mid \in DOMAIN st.monster_positions :
          IF StepTargets(Dungeon, st.monster_positions[mid]) = {}
          THEN st'.monster_positions[mid] = st.monster_positions[mid]
          ELSE st'.monster_positions[mid] \in StepTargets(Dungeon, st.monster_positions[mid])

RoamersIn(s, t) == {mid \in DOMAIN s.monster_positions : s.monster_positions[mid] = t}

\* C27: on a normal move (target resolved, not sealed, not locked, no uncleared
\* guardian, not the exit room) the player is moved and the move is persisted,
\* move_all runs exactly once and its result is persisted, and then: with a
\* roamer in the player's new room the controller is in combat with a roamer
\* located in that room and launches an encounter job; otherwise it is not in
\* combat and launches a room-entry job.
C27_NormalMove ==
    [][\A direction \in Directions :
          (MoveStep(direction) /\ NormalAhead(Target(direction))) =>
              /\ st'.current_room = Target(direction)
              /\ disk'.current_room = Target(direction)
              /\ SteppedOnce
              /\ disk'.monster_positions = st'.monster_positions
              /\ IF RoamersIn(st', Target(direction)) # {}
                 THEN /\ in_combat' /\ enemy_type' = "monster"
                      /\ current_enemy'.id \in RoamersIn(st', Target(direction))
                      /\ launched' = <<"monster_encounter">>
                 ELSE /\ ~in_combat' /\ enemy_type' = None
                      /\ launched' = <<"room">>]_vars

\* the player walked into the hall while the roamer stepped into it
C27_Encounter ==
    /\ op = <<"move", "north">> /\ launched = <<"monster_encounter">>
    /\ st.current_room = "hall" /\ disk.current_room = "hall"
    /\ RoamersIn(st, "hall") = {"rat"} /\ disk.monster_positions = st.monster_positions
    /\ in_combat /\ enemy_type = "monster" /\ current_enemy.id = "rat"
    /\ data = "main"

-----------------------------------------------------------------------------
(* Roaming monsters *)

Roamers == Range(Files[data].monster_registry.order)

\* the step runs MonsterManager.scatter: start_game with no roamer positioned,
\* or restart_after_death (which resets the state first)
ScatterStep ==
    /\ phase' = "running"
    /\ \/ op'[1] = "start_game" /\ needs_monster_scatter(st)
       \/ op'[1] = "restart_after_death"
    /\ MonsterEligibleRooms(Dungeon) # {}

Placed(s) == DOMAIN s.monster_positions

InNormalRooms(s) ==
    \A mid \in Placed(s) : Dungeon.rooms[s.monster_positions[mid]].type = "normal"

PairwiseDistinct(s) ==
    \A a, b \in Placed(s) : a # b => s.monster_positions[a] # s.monster_positions[b]

\* C28: scatter assigns every roamer id a room of kind normal (whenever such a
\* room exists): pairwise distinct rooms when the roamers do not outnumber
\* the eligible rooms, and when they do, the ids wrap so that every roamer is
\* still placed, several sharing a room.
C28_ScatterPlacesAll ==
    [][ScatterStep =>
          /\ Placed(st') = Roamers
          /\ InNormalRooms(st')
          /\ (Cardinality(Roamers) <= Cardinality(MonsterEligibleRooms(Dungeon))
                => PairwiseDistinct(st'))]_vars

\* what scatter does: the first roamers of the registry, as many as there are
\* eligible rooms, get pairwise distinct normal rooms; the others get none
ScatterTruncates ==
    [][ScatterStep =>
          /\ Placed(st') =
                {Files[data].monster_registry.order[i] :
                    i \in 1..MinOf(Cardinality(Roamers),
                                   Cardinality(MonsterEligibleRooms(Dungeon)))}
          /\ InNormalRooms(st')
          /\ PairwiseDistinct(st')
          /\ disk'.monster_positions = st'.monster_positions]_vars

\* the step runs MonsterManager.move_all: a normal move
MoveAllStep ==
    \E direction \in Directions : MoveStep(direction) /\ NormalAhead(Target(direction))

\* C29: move_all moves every live roamer that has an adjacent room of kind
\* normal to one of those rooms and leaves a roamer without such a neighbour
\* where it is; hence after scatter and any number of move_all calls every
\* live roamer is in a room of kind normal (never home, boss or exit).
C29_RoamersInNormalRooms ==
    [][/\ InNormalRooms(st') /\ InNormalRooms(disk')
       /\ MoveAllStep =>
             \A mid \in Placed(st) :
                 /\ mid \in Placed(st')
                 /\ StepTargets(Dungeon, st.monster_positions[mid]) # {}
                       => /\ st'.monster_positions[mid]
                               \in StepTargets(Dungeon, st.monster_positions[mid])
                          /\ Dungeon.rooms[st'.monster_positions[mid]].type = "normal"
                 /\ StepTargets(Dungeon, st.monster_positions[mid]) = {}
                       => st'.monster_positions[mid] = st.monster_positions[mid]]_vars

\* the roamer left the hall for the vault as the player walked into the hall
C29_Stepped ==
    /\ data = "main" /\ op = <<"move", "north">> /\ launched = <<"room">>
    /\ st.current_room = "hall"
    /\ st.monster_positions = [rat |-> "vault"] /\ disk.monster_positions = [rat |-> "vault"]
    /\ ~in_combat

\* the roamer of the armory map has no adjacent normal room and stayed
Trapped ==
    /\ data = "armory" /\ op = <<"move", "north">> /\ launched = <<"monster_encounter">>
    /\ st.current_room = "hall" /\ st.monster_positions = [rat |-> "hall"]

-----------------------------------------------------------------------------
(* Completion chaining *)

\* the step is the completion slot of a job of `slot`
Completed(slot) == op' = <<"finished", slot>> /\ Running

\* the completed job has left its slot and `follow_up` jobs entered theirs
JobsAfter(slot, follow_up) ==
    jobs' = [s \in Slot |->
                jobs[s] - (IF s = slot THEN 1 ELSE 0)
                        + (IF s \in follow_up THEN 1 ELSE 0)]

CombatEnded ==
    /\ ~in_combat' /\ current_enemy' = NoEnemy /\ enemy_type' = None
    /\ "combat_ended" \in Range(emitted')

\* C30: completion chaining: when an unlock narration completes, a room-entry
\* narration of the room the player is in is launched; when a roamer-defeat
\* narration completes, combat is ended (combat_ended emitted, the enemy
\* discarded) and a fresh room-entry narration is launched; when a
\* guardian-defeat narration completes, combat is ended and no follow-up job
\* is launched.
C30_CompletionChaining ==
    [][/\ Completed("unlock") =>
             /\ launched' = <<"room">> /\ JobsAfter("unlock", {"narration"})
             /\ st' = st /\ in_combat' = in_combat /\ current_enemy' = current_enemy
       /\ Completed("monster_defeat") =>
             /\ CombatEnded
             /\ launched' = <<"room">> /\ JobsAfter("monster_defeat", {"narration"})
             /\ st' = st
       /\ Completed("boss_defeat") =>
             /\ CombatEnded
             /\ launched' = <<>> /\ JobsAfter("boss_defeat", {})
             /\ st' = st]_vars

\* the roamer's defeat narration completed and the room is narrated afresh
C30_AfterTheRat ==
    /\ op = <<"finished", "monster_defeat">> /\ launched = <<"room">>
    /\ jobs = [NoJobs EXCEPT !["narration"] = 1]
    /\ ~in_combat /\ current_enemy = NoEnemy
    /\ "rat" \notin DOMAIN st.monster_positions
    /\ "combat_ended" \in Range(emitted)

-----------------------------------------------------------------------------
(* Picking up equipment *)

\* the step is a pickup intent for `item`, a weapon or a piece of armor
GearPickup(item) ==
    /\ op' = <<"pickup", item>> /\ Running
    /\ item \in DOMAIN Registry /\ Registry[item].type \in {"weapon", "armor"}

\* the item the slot of `item` held before the step
Displaced(item) == st.equipped[Registry[item].slot]

\* C31: picking up a weapon or armor item equips it in its slot and removes
\* it from the floor; the item that was in the slot is dropped onto the floor
\* of the current room unless it is the unarmed sentinel or the slot was
\* empty; a swap job is launched when the slot held an item (the sentinel
\* included), a plain pickup job when the slot was empty.
C31_PickupEquips ==
    [][\A item \in DOMAIN Registry :
          GearPickup(item) =>
              /\ st'.equipped = [st.equipped EXCEPT ![Registry[item].slot] = item]
              /\ get_room_items(st', st.current_room) =
                    SeqRemoveFirst(get_room_items(st, st.current_room), item)
                    \o (IF Displaced(item) \notin {None, "bare_hands"}
                        THEN <<Displaced(item)>> ELSE <<>>)
              /\ st' = [st EXCEPT !.equipped = st'.equipped, !.room_items = st'.room_items]
              /\ disk' = st'
              /\ launched' = IF Displaced(item) # None THEN <<"swap">> ELSE <<"pickup">>]_vars

\* the axe was picked up while the sword was wielded: the sword lies where
\* the axe lay
C31_Swapped ==
    /\ op = <<"pickup", "axe">> /\ launched = <<"swap">>
    /\ st.equipped["weapon"] = "axe"
    /\ "sword" \in Range(get_room_items(st, st.current_room))
    /\ "axe" \notin Range(get_room_items(st, st.current_room))
    /\ disk = st

\* the shield went into its empty slot
ShieldTaken ==
    /\ op = <<"pickup", "shield">> /\ launched = <<"pickup">>
    /\ st.equipped["shield"] = "shield"

\* the first weapon replaced the sentinel, which is not dropped
SentinelReplaced ==
    /\ op = <<"pickup", "sword">> /\ launched = <<"swap">>
    /\ st.equipped["weapon"] = "sword"
    /\ \A r \in DOMAIN st.room_items : "bare_hands" \notin Range(st.room_items[r])

-----------------------------------------------------------------------------
(* Completions and the encounter that launched them *)

DefeatSlots == {"boss_defeat", "monster_defeat"}

\* a defeat job is launched by the exchange that leaves the enemy at 0 hit
\* points, so an enemy with hit points left belongs to a later encounter
LaterEncounter == in_combat /\ current_enemy # NoEnemy /\ current_enemy.current_hp > 0

\* C32: the completion of a guardian- or roamer-defeat narration applies only
\* to the encounter that launched it: it never clears in-combat or discards
\* the enemy of a combat encounter that started after the job was launched.
C32_OwnEncounterOnly ==
    [][\A slot \in DefeatSlots :
          (Completed(slot) /\ LaterEncounter) =>
              /\ in_combat' /\ current_enemy' = current_enemy
              /\ enemy_type' = enemy_type]_vars

\* a later encounter is under way while a defeat job is still in flight
LaterEncounterPending ==
    /\ LaterEncounter
    /\ \E slot \in DefeatSlots : jobs[slot] > 0

\* a later encounter meets a pending defeat job only through a move intent
\* handled while that job was in flight
LaterEncounterOnlyByOverlap ==
    [][(~LaterEncounterPending /\ LaterEncounterPending' /\ Running)
          => (op'[1] = "move" /\ \E slot \in DefeatSlots : jobs[slot] > 0)]_vars

-----------------------------------------------------------------------------
(* Combat and the enemy's existence *)

\* the controller waits for an intent: running, no narrative job in flight
Idle == phase = "running" /\ JobsInFlight = 0

\* the current enemy is still in the world: a guardian not in the cleared
\* set, or a roamer in the position map
EnemyExists ==
    /\ current_enemy # NoEnemy
    /\ enemy_type = "boss" => current_enemy.id \notin st.cleared_bosses
    /\ enemy_type = "monster" => current_enemy.id \in DOMAIN st.monster_positions

\* C33: whenever the controller is in combat and no narrative job is in
\* flight, the current enemy has hit points above 0 and still exists in the
\* world; a defeat narration that fails does not leave the controller in
\* combat with a defeated enemy.
C33_CombatEnemyAlive ==
    (Idle /\ in_combat) => (current_enemy.current_hp > 0 /\ EnemyExists)

\* while the enemy's defeat has not been recorded, the enemy of an idle
\* controller in combat is alive and in the world
EnemyAliveUntilDefeat ==
    (Idle /\ in_combat /\ current_enemy.current_hp > 0) => EnemyExists

\* the step that leaves the controller idle in combat with a defeated enemy is
\* the failure or the completion of a job
DefeatedIdleOnlyByJobEnd ==
    [][(/\ ~(Idle /\ Defeated)
        /\ phase' = "running" /\ jobs' = NoJobs
        /\ in_combat' /\ current_enemy' # NoEnemy /\ current_enemy'.current_hp = 0)
          => op'[1] \in {"error", "finished"}]_vars

-----------------------------------------------------------------------------
(* Death *)

\* the controller takes intents: no job in flight and no dialog open
AwaitingIntent == Idle /\ dialogs = <<>>

\* C34: player hit points of 0 always lead to the death flow: an attack
\* exchange that leaves the player at 0 hit points launches a death job (also
\* when the enemy is reduced to 0 in the same exchange), and the controller is
\* never waiting for an intent, exploring or in combat, with no job in flight
\* while the player's hit points are 0.
C34_DeathFlow ==
    [][/\ (Exchange /\ st'.hp = 0) => launched' = <<"death">>
       /\ (phase' = "running" /\ jobs' = NoJobs /\ dialogs' = <<>>) => st'.hp > 0]_vars

\* the exchange that kills the player with the enemy alive launches the death
\* job
DeathWhenEnemySurvives ==
    [][(Exchange /\ st'.hp = 0 /\ current_enemy'.current_hp > 0)
          => launched' = <<"death">>]_vars

\* the exchange that brings both sides to 0 hit points launches the defeat job
MutualKill ==
    [][(Exchange /\ st'.hp = 0 /\ current_enemy'.current_hp = 0)
          => launched' \in {<<"boss_defeat">>, <<"monster_defeat">>}]_vars

\* the dead player waits for an intent
DeadAwaitingIntent == AwaitingIntent /\ st.hp = 0

-----------------------------------------------------------------------------
(* Guardians and roamers beside the player *)

\* the guardian of the player's room, None when the room has none
GuardianHere == Dungeon.rooms[st.current_room].boss_id

BesideUnclearedGuardian == GuardianHere # None /\ GuardianHere \notin st.cleared_bosses

FightingGuardianHere ==
    in_combat /\ enemy_type = "boss" /\ current_enemy.id = GuardianHere

\* C35: whenever no narrative job is in flight and the player stands in a
\* room whose guardian is not in the cleared set, the controller is in combat
\* with that guardian: no path (the unlock branch, start-up in a guarded
\* room, arriving while in combat with a roamer) leaves the player beside an
\* uncleared guardian outside combat.
C35_GuardianMeansCombat ==
    (Idle /\ BesideUnclearedGuardian) => FightingGuardianHere

\* a guardian room entered by the boss-room branch or found at start-up puts
\* the controller in combat with its guardian
GuardianEngaged ==
    [][/\ \A direction \in Directions :
             (MoveStep(direction) /\ GuardianAhead(Target(direction))
                 /\ ~SealedExit(Target(direction)) /\ ~LockedAhead(Target(direction)))
             => (in_combat' /\ enemy_type' = "boss"
                 /\ current_enemy'.id = Dungeon.rooms[Target(direction)].boss_id)
       /\ (op'[1] = "start_game" /\ BesideUnclearedGuardian)
             => (in_combat' /\ enemy_type' = "boss" /\ current_enemy'.id = GuardianHere)]_vars

\* the player was let into the locked crypt and stands beside the ogre,
\* out of combat, with nothing in flight
UnlockedIntoGuardian ==
    /\ Idle /\ st.current_room = "crypt" /\ ~in_combat
    /\ "ogre" \notin st.cleared_bosses /\ "crypt" \in st.unlocked_rooms

\* the roamers in the player's room
RoamersHere == RoamersIn(st, st.current_room)

\* C36: whenever no narrative job is in flight and the controller is not in
\* combat, no live roamer is in the player's current room; also after one of
\* two roamers sharing the room is defeated, and after entering a room through
\* the unlock branch.
C36_NoRoamerOutsideCombat == (Idle /\ ~in_combat) => RoamersHere = {}

\* a normal move that ends in a room with a roamer starts combat with a roamer
\* of that room
EncounterOnArrival ==
    [][\A direction \in Directions :
          (MoveStep(direction) /\ NormalAhead(Target(direction))
              /\ RoamersIn(st', Target(direction)) # {})
          => (in_combat' /\ current_enemy'.id \in RoamersIn(st', Target(direction)))]_vars

\* the vault was unlocked with the roamer inside: the player stands beside it
\* outside combat with nothing in flight
UnlockedIntoRoamer ==
    /\ Idle /\ ~in_combat /\ dialogs = <<>>
    /\ st.current_room = "vault" /\ RoamersHere = {"rat"}

\* one of two roamers sharing the player's room was defeated and its defeat
\* narration and the room narration after it have ended, the other is still
\* there and the controller is out of combat
SharedRoomSurvivor ==
    /\ Idle /\ ~in_combat /\ dialogs = <<>>
    /\ op = <<"finished", "narration">>
    /\ st.current_room = "hall" /\ RoamersHere = {"bat"} /\ Placed(st) = {"bat"}
    /\ st.hp = 50

-----------------------------------------------------------------------------
(* Narration notifications *)

\* the job of `slot` ended with an error and its handler returned
Failed(slot) == op' = <<"error", slot>> /\ Running

FinishedCount == CountIn(emitted', "narration_finished")

\* C37: every narration-started notification is followed by exactly one
\* narration-finished notification once its job completes or fails, for every
\* job kind including victory and death narrations: the handler of a completed
\* or failed job emits narration_finished exactly once.
C37_StartedThenFinished ==
    [][\A slot \in Slot : (Completed(slot) \/ Failed(slot)) => FinishedCount = 1]_vars

\* it holds of every failure, and of every completion but victory and death
FinishedUnlessFinal ==
    [][\A slot \in Slot :
          /\ Failed(slot) => FinishedCount = 1
          /\ (Completed(slot) /\ slot \notin {"win", "death"}) => FinishedCount = 1]_vars

\* a victory or death narration completes without narration_finished
FinalNarrationUnfinished ==
    [][\A slot \in {"win", "death"} : Completed(slot) => FinishedCount = 0]_vars

\* the game-over dialog is up after a completed death narration that never
\* reported narration_finished
DeathNarrationUnfinished ==
    /\ op = <<"finished", "death">> /\ phase = "running"
    /\ "game_over" \in Range(emitted) /\ "narration_finished" \notin Range(emitted)

-----------------------------------------------------------------------------
(* Voice-stream workers *)

SttAlive == stt.bound + stt.orphaned + stt.finalising

\* C38: at most one voice-stream worker is alive at any time, so at most one
\* final transcript is ever pending delivery: a recording started right after
\* the previous one was stopped does not run beside the previous worker that is
\* still finalising its transcript.
C38_OneSttWorker == SttAlive <= 1

\* at most one worker is streaming the microphone; the others are finalising
OneStreamingWorker == stt.bound + stt.orphaned <= 1

\* a new recording streams while the previous worker still finalises
RecordingBesideFinalising ==
    /\ op[1] = "on_recording_started" /\ phase = "running"
    /\ is_recording /\ stt.bound = 1 /\ stt.finalising >= 1

-----------------------------------------------------------------------------
(* Guardian hit points across encounters *)

BossIds == DOMAIN Files[data].boss_registry

\* the hit points the state file holds for guardian b; a guardian the file
\* does not mention yet stands at its max_hp
PersistedHp(d, b) ==
    IF b \in DOMAIN d.boss_hp THEN d.boss_hp[b] ELSE Files[data].boss_registry[b].max_hp

\* GameState.reset() ran: the death restart or the window closing
ResetStep == op'[1] \in {"restart_after_death", "closeEvent"}

\* _start_combat ran in this step
BossCombatStarted == "boss_entry" \in Range(launched') /\ phase' = "running"

\* C39: between resets a guardian's persisted hit points never increase, and
\* a guardian fight that starts (on entering the room again after fleeing, or
\* on starting the program inside the room) resumes at the last persisted hit
\* points, not at max_hp.
C39_GuardianHpKept ==
    [][/\ ~ResetStep => \A b \in BossIds : PersistedHp(disk', b) <= PersistedHp(disk, b)
       /\ BossCombatStarted =>
             /\ current_enemy'.current_hp = PersistedHp(disk, current_enemy'.id)
             /\ PersistedHp(disk', current_enemy'.id) = PersistedHp(disk, current_enemy'.id)]_vars

\* the player fled the wounded ogre and has walked into its lair again
C39_BackInTheLair ==
    /\ op = <<"move", "north">> /\ launched = <<"boss_entry">>
    /\ in_combat /\ current_enemy.id = "ogre"
    /\ current_enemy.current_hp = 5 /\ current_enemy.max_hp = 10
    /\ disk.boss_hp["ogre"] = 5

\* the program was started inside the lair of the wounded ogre
RestartedInTheLair ==
    /\ op = <<"start_game", None>> /\ launched = <<"boss_entry">>
    /\ in_combat /\ current_enemy.id = "ogre"
    /\ current_enemy.current_hp = 5 /\ disk.boss_hp["ogre"] = 5

-----------------------------------------------------------------------------
(* Hit-point ranges *)

MonsterIds == DOMAIN Files[data].monster_registry.monsters

\* the document d keeps every hit-point figure within 0 .. max
HpInRange(d) ==
    /\ 0 <= d.hp /\ d.hp <= d.max_hp
    /\ \A b \in DOMAIN d.boss_hp :
          0 <= d.boss_hp[b] /\ d.boss_hp[b] <= Files[data].boss_registry[b].max_hp
    /\ \A mo \in DOMAIN d.monster_hp :
          0 <= d.monster_hp[mo]
          /\ d.monster_hp[mo] <= Files[data].monster_registry.monsters[mo].max_hp

\* C40: in every reachable state 0 <= player hp <= player max hp, and the
\* current hit points h of every guardian and of every live roamer satisfy
\* 0 <= h <= that enemy's max hit points (in memory, in the state file and in
\* the record of the enemy being fought).
C40_HpInRange ==
    /\ HpInRange(st) /\ HpInRange(disk)
    /\ DOMAIN st.boss_hp \subseteq BossIds /\ DOMAIN st.monster_hp \subseteq MonsterIds
    /\ current_enemy # NoEnemy =>
          /\ 0 <= current_enemy.current_hp
          /\ current_enemy.current_hp <= current_enemy.max_hp

\* wounded by the ogre it wounded, the player fled to the hall and drank the
\* potion: both figures lie strictly inside their ranges
C40_WoundedAndHealed ==
    /\ op = <<"pickup", "potion">> /\ launched = <<"potion">>
    /\ st.hp = 80 /\ st.max_hp = 100 /\ disk.hp = 80
    /\ "ogre" \in DOMAIN st.boss_hp /\ st.boss_hp["ogre"] = 5
    /\ disk.boss_hp = st.boss_hp

\* an exchange that would overshoot on both sides stops at zero
BothAtZero ==
    /\ op[1] = "attack" /\ st.hp = 0
    /\ current_enemy # NoEnemy /\ current_enemy.current_hp = 0

====
